---- MODULE Spec2Model ----
(***************************************************************************)
(* Multi-endpoint table consolidation of the data provider toolkit         *)
(* (services/data_provider_toolkit.py) and the clear-and-retry flow of its *)
(* caller (data_providers/lseg_workspace.py, get_fundamental_data).        *)
(*                                                                         *)
(* A pyarrow table is a record [cols, rows]: cols is the sequence of       *)
(* column names, rows the sequence of rows, each row a function from the   *)
(* column names to cell values.  A qualified column name "Entity.field" is *)
(* the pair <<Entity, field>>.  Cell values are positive integers; the     *)
(* pyarrow null / Python None is NULL.                                     *)
(***************************************************************************)
EXTENDS Integers, Sequences, FiniteSets, TLC

VARIABLES
    tables,       \* processed_endpoint_tables, in dict iteration order
    keyCols,      \* key_column_names of table_merge_fields
    descending,   \* predominant_order_descending
    preserved,    \* preserved_column_names handed to the clearing
    pc,           \* position of the caller
    merged,       \* outcome of _merge_primary_key_subsets_preserving_order
    result,       \* outcome of the first consolidation
    clearKeys,    \* clear_rows_primary_keys handed to the clearing
    cleared,      \* outcome of clear_discrepant_processed_endpoint_tables_rows
    retried,      \* outcome of the consolidation of the cleared tables
    schema,       \* the entity types' sub-entity fields, in field order
    relations,    \* outcome of _calculate_ordered_entity_relation_map
    consolidated, \* the consolidated table handed to the data block
    packed,       \* outcome of _pack_entity_hierarchy_rows
    data_block_endpoint_column_remaps,        \* the toolkit's remaps cache
    data_block_endpoint_field_preprocessors,  \* the toolkit's preprocessors cache
    lastProcessed, \* arguments and outcome of the last process_endpoint_tables
    calls,        \* calls of process_endpoint_tables so far
    identifiers,          \* configuration.identifiers
    fallback_chunk_size,  \* market_data_provider.pipeline_chunk_size
    chunk_size,           \* identifiers initialized per chunk
    chunk_start,          \* index of the first identifier of the chunk
    position,             \* identifiers of the current pass already handled
    failed_tickers,       \* identifiers of the chunk marked for the retry pass
    first_outcome,        \* per identifier, how its loads of the first pass ended
    retry_outcome,        \* per identifier, how its loads of the retry pass ended
    outputs,              \* per identifier, invocations of the output handlers
    raised,               \* the error that ended main, and the step it came from
    tickers,                  \* the RICs a fetch is called with
    skip_partition_fallback,  \* argument of _fetch_bulk_data
    mini_bulk_batch_size,     \* argument of _fetch_bulk_data
    all_results,              \* instruments with rows in the frames collected so far
    failed_rics,              \* failed_rics of _fetch_bulk_data
    step1_error,              \* step1_error of _fetch_bulk_data
    round_num,                \* the partition round running, 0 before the first
    round_tickers,            \* tickers the running round was called with
    batch_idx,                \* batches of the running round already fetched
    still_failed,             \* failed_rics of the running _fetch_in_mini_bulks
    round_data,               \* instruments with rows in the running round's frames
    pending,                  \* calls of _fetch_with_adaptive_chunking not yet run
    chunk_data,               \* instruments with rows in the frames of the chunks
    chunk_failed,             \* failed_tickers of _fetch_with_adaptive_chunking
    requested,                \* the tickers of the last call of _attempt_fetch
    requests,                 \* calls of _attempt_fetch so far
    classified,               \* the error class of the last request, if any
    fetched                   \* how the fetch ended

\* the state of the data provider toolkit and of the data block
toolkitVars == <<tables, keyCols, descending, preserved, merged, result,
                 clearKeys, cleared, retried>>
blockVars == <<schema, relations, consolidated, packed>>

cacheVars == <<data_block_endpoint_column_remaps, data_block_endpoint_field_preprocessors,
               lastProcessed, calls>>
\* the state outside the consolidation and the data block
mainVars == <<identifiers, fallback_chunk_size, chunk_size, chunk_start, position,
              failed_tickers, first_outcome, retry_outcome, outputs, raised>>
\* the state of a fetch of the LSEG provider
fetchVars == <<tickers, skip_partition_fallback, mini_bulk_batch_size, all_results,
               failed_rics, step1_error, round_num, round_tickers, batch_idx,
               still_failed, round_data, pending, chunk_data, chunk_failed,
               requested, requests, classified, fetched>>
runVars == <<cacheVars, mainVars, fetchVars>>

vars == <<toolkitVars, blockVars, runVars, pc>>

\* ------------------------------------------------------------------ bounds
MaxRows == 2        \* rows of an endpoint table (consolidation)
MaxKeyRows == 2     \* rows of a key table (order merge)
MaxClearRows == 2   \* rows of the table and of the key table (clearing)

\* ------------------------------------------------------------ cell values
NULL == 0
KeyValues == {1, 2}
MergeKeyValues == {1, 2, 3}
CellValues == {NULL, 1, 2}

\* ------------------------------------------------------------ column names
K1 == <<"Row", "filing_date">>
K2 == <<"Row", "period_end_date">>
AX == <<"A", "x">>
AY == <<"A", "y">>
BX == <<"B", "x">>
\* the qualified names in the order Python's sorted() gives their strings
\* "A.x" < "A.y" < "B.x" < "Row.filing_date" < "Row.period_end_date"
SortedNames == <<AX, AY, BX, K1, K2>>
EndpointNames == <<"e1", "e2", "e3">>

\* ------------------------------------------------------------------ helpers
Range(s) == {s[i] : i \in DOMAIN s}

Reverse(s) == [i \in DOMAIN s |-> s[Len(s) + 1 - i]]

SeqsUpTo(S, n) == UNION {[1..m -> S] : m \in 0..n}

Table(cols, rows) == [cols |-> cols, rows |-> rows]

\* pyarrow.table({})
EmptyTable == Table(<<>>, <<>>)

HasColumns(t, names) == \A i \in DOMAIN names : names[i] \in Range(t.cols)

\* table.select(names)
Select(t, names) ==
    Table(names, [i \in DOMAIN t.rows |-> [c \in Range(names) |-> t.rows[i][c]]])

\* tuple(row[name] for name in column_names)
KeyTuple(row, names) == [i \in DOMAIN names |-> row[names[i]]]

KeyTuples(t, names) == [i \in DOMAIN t.rows |-> KeyTuple(t.rows[i], names)]

\* sorted(names) of a set of qualified column names
SortedCols(S) == SelectSeq(SortedNames, LAMBDA n : n \in S)

\* outcome records
Outcome(kind, t, dcols, dtable, knames) ==
    [kind |-> kind, table |-> t, discrepant_columns |-> dcols,
     discrepancies_table |-> dtable, key_column_names |-> knames]
Returned(t) == Outcome("table", t, {}, EmptyTable, <<>>)
Raised(e) == Outcome(e, EmptyTable, {}, EmptyTable, <<>>)
NotRun == Outcome("none", EmptyTable, {}, EmptyTable, <<>>)
NotCleared == [kind |-> "none", tables |-> <<>>]

\* outcome of the packing: the clock-indexed row map as the sequence of its
\* (key, value) items in insertion order, or the error raised
PackOutcome(kind, rows, entity, clock, errors, attempted) ==
    [kind |-> kind, rows |-> rows, entity |-> entity, clock |-> clock,
     errors |-> errors, attempted |-> attempted]
NotPacked == PackOutcome("none", <<>>, "", "", <<>>, <<>>)

\* the data block not used
\* the data blocks a process calls the toolkit with
DataBlocks == {"FundamentalsDataBlock", "MarketDailyDataBlock"}

\* a data block without an entry in a cache of the toolkit
NotCached == [cached |-> FALSE, value |-> {}]

NotProcessed ==
    [kind |-> "none", table |-> [cols |-> <<>>, rows |-> <<>>], data_block |-> "",
     endpoint_field_map |-> <<>>, endpoint_table |-> [cols |-> <<>>, rows |-> <<>>]]

\* the class attributes of a fresh process, and no call yet
CacheIdle ==
    /\ data_block_endpoint_column_remaps = [b \in DataBlocks |-> NotCached]
    /\ data_block_endpoint_field_preprocessors = [b \in DataBlocks |-> NotCached]
    /\ lastProcessed = NotProcessed
    /\ calls = 0

NotRaised == [kind |-> "none", during |-> "none"]

\* main not called
MainIdle ==
    /\ identifiers = <<>>
    /\ fallback_chunk_size = 0
    /\ chunk_size = 0
    /\ chunk_start = 0
    /\ position = 0
    /\ failed_tickers = <<>>
    /\ first_outcome = <<>>
    /\ retry_outcome = <<>>
    /\ outputs = <<>>
    /\ raised = NotRaised

NotFetched == [kind |-> "none", rics |-> {}, error |-> "none"]

\* no fetch called
FetchIdle ==
    /\ tickers = <<>>
    /\ skip_partition_fallback = FALSE
    /\ mini_bulk_batch_size = 0
    /\ all_results = {}
    /\ failed_rics = <<>>
    /\ step1_error = "none"
    /\ round_num = 0
    /\ round_tickers = <<>>
    /\ batch_idx = 0
    /\ still_failed = <<>>
    /\ round_data = {}
    /\ pending = <<>>
    /\ chunk_data = {}
    /\ chunk_failed = <<>>
    /\ requested = <<>>
    /\ requests = 0
    /\ classified = "none"
    /\ fetched = NotFetched

RunIdle == CacheIdle /\ MainIdle /\ FetchIdle

BlockIdle ==
    /\ schema = <<>>
    /\ relations = [kind |-> "none", order |-> <<>>]
    /\ consolidated = EmptyTable
    /\ packed = NotPacked

\* ------------------------------------------------------- primary key merge
\* all_null_mask: every key column of the row is null
AllNull(k) == \A i \in DOMAIN k : k[i] = NULL

\* filtered_table: the rows that are not all-null
ValidKeyRows(t, names) == SelectSeq(KeyTuples(t, names), LAMBDA k : ~AllNull(k))

\* the duplicate check left out
HasDuplicateRowsUnchecked(ks) == FALSE

\* group_by(column_names).aggregate([]).num_rows != num_rows
HasDuplicateRows(ks) == \E i, j \in DOMAIN ks : i < j /\ ks[i] = ks[j]

\* the rows added as nodes only (add_nodes_from in place of add_path)
PathEdgesNodesOnly(ks) == {}

\* networkx.add_path(graph, rows_as_tuples)
PathEdges(ks) == {<<ks[i], ks[i + 1]>> : i \in 1 .. (Len(ks) - 1)}

\* Python's < on two key tuples raises TypeError when the first differing
\* components are None and a value
Comparable(a, b) ==
    \/ a = b
    \/ LET i == CHOOSE n \in DOMAIN a : a[n] # b[n] /\ \A m \in 1 .. (n - 1) : a[m] = b[m]
       IN a[i] # NULL /\ b[i] # NULL

TupleLess(a, b) ==
    /\ a # b
    /\ LET i == CHOOSE n \in DOMAIN a : a[n] # b[n] /\ \A m \in 1 .. (n - 1) : a[m] = b[m]
       IN a[i] < b[i]

\* heapq.heappop: the least node of the heap
HeapMin(heap) == CHOOSE a \in heap : \A b \in heap : a = b \/ TupleLess(a, b)

\* the nodes whose predecessors have all been yielded: the heap's content
ZeroIndegree(nodes, edges, done) ==
    {n \in nodes \ done : \A e \in edges : e[2] = n => e[1] \in done}

\* the nodes in lexicographic order, the edges not looked at
RECURSIVE SortedNodesOnly(_, _, _)
SortedNodesOnly(nodes, edges, out) ==
    IF Range(out) = nodes THEN [kind |-> "sorted", order |-> out]
    ELSE SortedNodesOnly(nodes, edges, Append(out, HeapMin(nodes \ Range(out))))

\* networkx.lexicographical_topological_sort(graph): Kahn's algorithm with
\* a heap keyed by the node
RECURSIVE LexTopoSort(_, _, _)
LexTopoSort(nodes, edges, out) ==
    LET done == Range(out)
        heap == ZeroIndegree(nodes, edges, done)
    IN IF heap = {}
       THEN [kind |-> IF done = nodes THEN "sorted" ELSE "NetworkXUnfeasible",
             order |-> out]
       ELSE IF \E a, b \in heap : ~Comparable(a, b)
       THEN [kind |-> "TypeError", order |-> out]
       ELSE LexTopoSort(nodes, edges, Append(out, HeapMin(heap)))

\* descending mode reversing the result of the sort of the unreversed graph
SortedRowsGraphNotReversed(nodes, edges, desc) ==
    LET r == LexTopoSort(nodes, edges, <<>>)
    IN IF desc THEN [kind |-> r.kind, order |-> Reverse(r.order)] ELSE r

\* descending mode sorting the reversed graph, the result not reversed
SortedRowsResultNotReversed(nodes, edges, desc) ==
    IF desc
    THEN LexTopoSort(nodes, {<<e[2], e[1]>> : e \in edges}, <<>>)
    ELSE LexTopoSort(nodes, edges, <<>>)

\* the sort of the graph, or of the reversed graph with the result reversed
SortedRows(nodes, edges, desc) ==
    IF desc
    THEN LET r == LexTopoSort(nodes, {<<e[2], e[1]>> : e \in edges}, <<>>)
         IN [kind |-> r.kind, order |-> Reverse(r.order)]
    ELSE LexTopoSort(nodes, edges, <<>>)

\* the table of the sorted key tuples
KeyTable(names, ks) ==
    Table(names, [i \in DOMAIN ks |-> [c \in Range(names) |->
        ks[i][CHOOSE n \in DOMAIN names : names[n] = c]]])

MergePrimaryKeySubsets(subsets, desc) ==
    IF subsets = <<>> THEN Returned(EmptyTable)
    ELSE LET names == subsets[1].cols
             valid == [i \in DOMAIN subsets |-> ValidKeyRows(subsets[i], names)]
             nodes == UNION {Range(valid[i]) : i \in DOMAIN subsets}
             edges == UNION {PathEdges(valid[i]) : i \in DOMAIN subsets}
             srt   == SortedRows(nodes, edges, desc)
         IN IF names = <<>> THEN Raised("DataProviderToolkitRuntimeError")
            ELSE IF \E i \in DOMAIN subsets : subsets[i].cols # names
            THEN Raised("DataProviderToolkitRuntimeError")
            ELSE IF \E i \in DOMAIN subsets : HasDuplicateRows(valid[i])
            THEN Raised("DataProviderToolkitRuntimeError")
            ELSE IF nodes = {} THEN Returned(Table(names, <<>>))
            ELSE IF srt.kind = "NetworkXUnfeasible"
            THEN Raised("DataProviderMultiEndpointCommonDataOrderError")
            ELSE IF srt.kind = "TypeError" THEN Raised("TypeError")
            ELSE Returned(KeyTable(names, srt.order))

\* ------------------------------------------------------------ order merge
\* one to three key tables of one key column; the first may hold null keys
KeyOnlyTable(ks) == Table(<<K1>>, [i \in DOMAIN ks |-> [c \in {K1} |-> ks[i]]])

\* reverse_pyarrow_array on the rows of a table
RowReversed(t) == Table(t.cols, Reverse(t.rows))

InitMerge ==
    /\ \E t1 \in {KeyOnlyTable(ks) : ks \in SeqsUpTo(MergeKeyValues \cup {NULL}, MaxKeyRows)} :
       \E t2, t3 \in {KeyOnlyTable(ks) : ks \in SeqsUpTo(MergeKeyValues, MaxKeyRows)} :
           tables \in {<<t1>>, <<t1, t2>>, <<t1, t2, t3>>}
    /\ keyCols = <<K1>>
    /\ descending \in BOOLEAN
    /\ preserved = <<>>
    /\ pc = "start"
    /\ merged = NotRun
    /\ result = NotRun
    /\ clearKeys = EmptyTable
    /\ cleared = NotCleared
    /\ retried = NotRun
    /\ BlockIdle
    /\ RunIdle

\* a call of _merge_primary_key_subsets_preserving_order
Merge ==
    /\ pc = "start"
    /\ merged' = MergePrimaryKeySubsets(tables, descending)
    /\ pc' = "merged"
    /\ UNCHANGED <<tables, keyCols, descending, preserved, result, clearKeys,
                   cleared, retried>>
    /\ UNCHANGED <<blockVars, runVars>>

\* after an ascending merge: a call of the merge on the row-reversed tables
\* with predominant_order_descending=True
MergeReversedDescending ==
    /\ pc = "merged"
    /\ ~descending
    /\ retried' = MergePrimaryKeySubsets([i \in DOMAIN tables |-> RowReversed(tables[i])],
                                          TRUE)
    /\ pc' = "remerged"
    /\ UNCHANGED <<tables, keyCols, descending, preserved, merged, result,
                   clearKeys, cleared>>
    /\ UNCHANGED <<blockVars, runVars>>

NextMerge == Merge \/ MergeReversedDescending

SpecMerge == InitMerge /\ [][NextMerge]_vars

\* ------------------------------------------------------------ consolidation
\* primary_key_subsets: the key columns of the tables that have them all
PrimaryKeySubsets(tbls, names) ==
    LET withKeys == SelectSeq(tbls, LAMBDA t : HasColumns(t, names))
    IN [i \in DOMAIN withKeys |-> Select(withKeys[i], names)]

\* key equality of the hash join: a null key component matches nothing
JoinKeysMatch(a, b) == \A i \in DOMAIN a : a[i] # NULL /\ a[i] = b[i]

DataColumns(t, names) == SelectSeq(t.cols, LAMBDA c : c \notin Range(names))

\* the rows of t the left outer join pairs with the merged key k
MatchingRows(t, k, names) ==
    {r \in DOMAIN t.rows : JoinKeysMatch(k, KeyTuple(t.rows[r], names))}

\* one endpoint's table on the merged key order mk, with its validity mask;
\* a table without the key columns becomes the empty placeholder
AlignedTable(t, mk, names) ==
    IF ~HasColumns(t, names)
    THEN [cols |-> <<>>, valid |-> [r \in DOMAIN mk |-> FALSE],
          rows |-> [r \in DOMAIN mk |-> <<>>]]
    ELSE LET dcols == DataColumns(t, names)
         IN [cols  |-> dcols,
             valid |-> [r \in DOMAIN mk |-> MatchingRows(t, mk[r], names) # {}],
             rows  |-> [r \in DOMAIN mk |->
                 LET ms == MatchingRows(t, mk[r], names)
                 IN [c \in Range(dcols) |->
                        IF ms = {} THEN NULL ELSE t.rows[CHOOSE q \in ms : TRUE][c]]]]

\* null counted as agreeing with every value
ValuesAgreeNullAsWildcard(v1, v2) == v1 = v2 \/ v1 = NULL \/ v2 = NULL

\* no_discrepancy_mask: equal values, or both null
ValuesAgree(v1, v2) ==
    \/ (v1 # NULL /\ v2 # NULL /\ v1 = v2)
    \/ (v1 = NULL /\ v2 = NULL)

\* col_to_tables[c]: the aligned tables that have the non-key column c
ColumnTables(al, c) == {i \in DOMAIN al : c \in Range(al[i].cols)}

AllColumnNames(al) == UNION {Range(al[i].cols) : i \in DOMAIN al}

\* the rows of discrepancy_mask for column c of the aligned tables i and j
PairDiscrepantRows(al, c, i, j) ==
    {r \in DOMAIN al[i].valid :
        /\ al[i].valid[r] /\ al[j].valid[r]
        /\ ~ValuesAgree(al[i].rows[r][c], al[j].rows[r][c])}

TablePairs(al, c) == {p \in ColumnTables(al, c) \X ColumnTables(al, c) : p[1] < p[2]}

DiscrepantColumns(al) ==
    {c \in AllColumnNames(al) :
        \E p \in TablePairs(al, c) : PairDiscrepantRows(al, c, p[1], p[2]) # {}}

DiscrepantRows(al) ==
    UNION {UNION {PairDiscrepantRows(al, c, p[1], p[2]) : p \in TablePairs(al, c)} :
              c \in AllColumnNames(al)}

\* (column, table) pairs: tables in endpoint order outermost, sorted column
\* names innermost
TableColumnOrder(al) ==
    [k \in 1 .. (Len(SortedNames) * Len(al)) |->
        [col |-> SortedNames[((k - 1) % Len(SortedNames)) + 1],
         idx |-> ((k - 1) \div Len(SortedNames)) + 1]]

\* (column, table) pairs: sorted column names outermost, tables in endpoint
\* order innermost
ColumnTableOrder(al) ==
    [k \in 1 .. (Len(SortedNames) * Len(al)) |->
        [col |-> SortedNames[((k - 1) \div Len(al)) + 1], idx |-> ((k - 1) % Len(al)) + 1]]

\* f"{endpoint.name}${col_name}"
EndpointColumn(i, c) == <<EndpointNames[i], c[1], c[2]>>

\* _calculate_common_column_discrepancies
CommonColumnDiscrepancies(dcols, drows, mk, names, al) ==
    LET rowIdx == SelectSeq([r \in DOMAIN mk |-> r], LAMBDA r : r \in drows)
        pairs  == SelectSeq(ColumnTableOrder(al),
                      LAMBDA ct : ct.col \in dcols /\ ct.col \in Range(al[ct.idx].cols))
        ecols  == [k \in DOMAIN pairs |-> EndpointColumn(pairs[k].idx, pairs[k].col)]
    IN Table(names \o ecols,
             [q \in DOMAIN rowIdx |->
                 [c \in Range(names) \cup Range(ecols) |->
                     IF c \in Range(names)
                     THEN mk[rowIdx[q]][CHOOSE n \in DOMAIN names : names[n] = c]
                     ELSE LET k == CHOOSE k \in DOMAIN pairs : ecols[k] = c
                          IN al[pairs[k].idx].rows[rowIdx[q]][pairs[k].col]]])

\* full_name.split('.', 1)[1]
FieldName(c) == c[2]

\* the arrays of the field's group not equal to an array collected before
RECURSIVE UniqueArrays(_, _)
UniqueArrays(arrays, kept) ==
    IF arrays = <<>> THEN kept
    ELSE UniqueArrays(Tail(arrays),
             IF \E k \in DOMAIN kept : kept[k] = Head(arrays)
             THEN kept ELSE Append(kept, Head(arrays)))

\* arrays_to_coalesce of the group of c: every (column, table) pair whose
\* column has the field name of c
ArraysToCoalesce(al, c) ==
    LET pairs == SelectSeq(ColumnTableOrder(al),
                     LAMBDA ct : /\ FieldName(ct.col) = FieldName(c)
                                 /\ ct.col \in Range(al[ct.idx].cols))
    IN UniqueArrays([k \in DOMAIN pairs |->
                        [r \in DOMAIN al[pairs[k].idx].rows |->
                            al[pairs[k].idx].rows[r][pairs[k].col]]], <<>>)

\* pyarrow.compute.coalesce at row r: the first non-null value
Coalesce(arrays, r) ==
    IF \A k \in DOMAIN arrays : arrays[k][r] = NULL THEN NULL
    ELSE arrays[CHOOSE k \in DOMAIN arrays :
                    /\ arrays[k][r] # NULL
                    /\ \A m \in 1 .. (k - 1) : arrays[m][r] = NULL][r]

\* the final table: key columns, then the other columns sorted by name
ConsolidatedTable(mk, names, al) ==
    LET others == SortedCols(AllColumnNames(al))
    IN Table(names \o others,
             [r \in DOMAIN mk |->
                 [c \in Range(names) \cup Range(others) |->
                     IF c \in Range(names)
                     THEN mk[r][CHOOSE n \in DOMAIN names : names[n] = c]
                     ELSE Coalesce(ArraysToCoalesce(al, c), r)]])

\* consolidation of two or more tables once the key order mk is merged
ConsolidateAligned(tbls, names, mk) ==
    LET al == [i \in DOMAIN tbls |-> AlignedTable(tbls[i], mk, names)]
        dcols == DiscrepantColumns(al)
    IN IF dcols # {}
       THEN Outcome("DataProviderMultiEndpointCommonDataDiscrepancyError", EmptyTable,
                    dcols,
                    CommonColumnDiscrepancies(dcols, DiscrepantRows(al), mk, names, al),
                    names)
       ELSE Returned(ConsolidatedTable(mk, names, al))

\* the single table returned as it is
ConsolidateSingle(t, names, desc) == Returned(t)

\* consolidate_processed_endpoint_tables
Consolidate(tbls, names, desc) ==
    IF tbls = <<>> THEN Returned(EmptyTable)
    ELSE IF Len(tbls) = 1 THEN ConsolidateSingle(tbls[1], names, desc)
    ELSE LET subsets == PrimaryKeySubsets(tbls, names)
             m == MergePrimaryKeySubsets(subsets, desc)
         IN IF subsets = <<>> THEN Raised("DataProviderToolkitRuntimeError")
            ELSE IF m.kind # "table" THEN m
            ELSE ConsolidateAligned(tbls, names, KeyTuples(m.table, names))

\* ----------------------------------------------------------------- clearing
\* rows matched on the first key column only
ClearMaskFirstKeyOnly(t, ck) ==
    {r \in DOMAIN t.rows : \E q \in DOMAIN ck.rows :
        t.rows[r][ck.cols[1]] # NULL /\ t.rows[r][ck.cols[1]] = ck.rows[q][ck.cols[1]]}

\* rows_to_clear_mask: the rows the inner join on the key columns matches
ClearMask(t, ck) ==
    {r \in DOMAIN t.rows : \E q \in DOMAIN ck.rows :
        JoinKeysMatch(KeyTuple(t.rows[r], ck.cols), KeyTuple(ck.rows[q], ck.cols))}

\* _clear_table_rows_by_primary_key
ClearTableRows(t, ck, pres) ==
    IF \E c \in Range(ck.cols) \cup Range(pres) : c \notin Range(t.cols)
    THEN Raised("ValueError")
    ELSE IF Len(t.rows) = 0 \/ Len(ck.rows) = 0 THEN Returned(t)
    ELSE IF ClearMask(t, ck) = {} THEN Returned(t)
    ELSE Returned(Table(t.cols,
             [r \in DOMAIN t.rows |->
                 [c \in Range(t.cols) |->
                     IF c \in Range(pres) \/ r \notin ClearMask(t, ck)
                     THEN t.rows[r][c] ELSE NULL]]))

\* clear_discrepant_processed_endpoint_tables_rows
ClearDiscrepantRows(dtable, tbls, knames, pres) ==
    LET ck == Select(dtable, knames)
        out == [i \in DOMAIN tbls |-> ClearTableRows(tbls[i], ck, pres)]
    IN IF \E i \in DOMAIN tbls : out[i].kind = "ValueError"
       THEN [kind |-> "ValueError", tables |-> <<>>]
       ELSE [kind |-> "tables", tables |-> [i \in DOMAIN tbls |-> out[i].table]]

\* ------------------------------------------------ consolidate, clear, retry
\* the rows with key columns knames over kvals and the other columns over dvals
RowsOver(cols, knames, kvals, dvals) ==
    {rw \in [Range(cols) -> kvals \cup dvals] :
        \A c \in Range(cols) : rw[c] \in (IF c \in Range(knames) THEN kvals ELSE dvals)}

\* endpoint tables of one key column and one data column
SingleKeyTables(dataCol) ==
    {Table(<<K1, dataCol>>, rs) :
        rs \in SeqsUpTo(RowsOver(<<K1, dataCol>>, <<K1>>, KeyValues, CellValues), MaxRows)}

Init ==
    /\ \E t1 \in SingleKeyTables(AX) :
       \E t2 \in SingleKeyTables(AX) \cup SingleKeyTables(BX) :
           tables \in {<<t1>>, <<t1, t2>>}
    /\ keyCols = <<K1>>
    /\ descending \in BOOLEAN
    /\ preserved = <<K1>>
    /\ pc = "start"
    /\ merged = NotRun
    /\ result = NotRun
    /\ clearKeys = EmptyTable
    /\ cleared = NotCleared
    /\ retried = NotRun
    /\ BlockIdle
    /\ RunIdle

\* the first call of consolidate_processed_endpoint_tables
ConsolidateTables ==
    /\ pc = "start"
    /\ result' = Consolidate(tables, keyCols, descending)
    /\ pc' = "consolidated"
    /\ UNCHANGED <<tables, keyCols, descending, preserved, merged, clearKeys,
                   cleared, retried>>
    /\ UNCHANGED <<blockVars, runVars>>

\* except DataProviderMultiEndpointCommonDataDiscrepancyError: clear
ClearDiscrepant ==
    /\ pc = "consolidated"
    /\ result.kind = "DataProviderMultiEndpointCommonDataDiscrepancyError"
    /\ clearKeys' = Select(result.discrepancies_table, result.key_column_names)
    /\ cleared' = ClearDiscrepantRows(result.discrepancies_table, tables,
                                      result.key_column_names, preserved)
    /\ pc' = "cleared"
    /\ UNCHANGED <<tables, keyCols, descending, preserved, merged, result, retried>>
    /\ UNCHANGED <<blockVars, runVars>>

\* the second call of consolidate_processed_endpoint_tables
Retry ==
    /\ pc = "cleared"
    /\ cleared.kind = "tables"
    /\ retried' = Consolidate(cleared.tables, keyCols, descending)
    /\ pc' = "retried"
    /\ UNCHANGED <<tables, keyCols, descending, preserved, merged, result,
                   clearKeys, cleared>>
    /\ UNCHANGED <<blockVars, runVars>>

Next == ConsolidateTables \/ ClearDiscrepant \/ Retry

Spec == Init /\ [][Next]_vars

\* the caller of get_fundamental_data: two key columns, descending order,
\* the clock-sync column preserved; a third endpoint may have returned no data
TwoKeyTables(cols) ==
    {Table(cols, rs) :
        rs \in SeqsUpTo(RowsOver(cols, <<K1, K2>>, KeyValues, {NULL, 1}), MaxRows)}

InitRetry ==
    /\ \E t1 \in TwoKeyTables(<<K1, K2, AX, AY>>) :
       \E t2 \in TwoKeyTables(<<K1, K2, AX>>) :
           tables \in {<<t1, t2>>, <<t1, t2, EmptyTable>>}
    /\ keyCols = <<K1, K2>>
    /\ descending = TRUE
    /\ preserved \in {<<K1>>, <<K1, K2>>}
    /\ pc = "start"
    /\ merged = NotRun
    /\ result = NotRun
    /\ clearKeys = EmptyTable
    /\ cleared = NotCleared
    /\ retried = NotRun
    /\ BlockIdle
    /\ RunIdle

SpecRetry == InitRetry /\ [][Next]_vars

\* ------------------------------------------------------ a call of the clearing
ClearInputTables ==
    {Table(<<K1, K2, AX>>, rs) :
        rs \in SeqsUpTo(RowsOver(<<K1, K2, AX>>, <<K1, K2>>, KeyValues, {NULL, 1}),
                         MaxClearRows)}
        \cup {EmptyTable}

ClearKeyTables ==
    {Table(<<K1, K2>>, rs) : rs \in SeqsUpTo(RowsOver(<<K1, K2>>, <<K1, K2>>, KeyValues, {}), MaxClearRows)}

InitClear ==
    /\ \E t \in ClearInputTables : tables = <<t>>
    /\ keyCols = <<K1, K2>>
    /\ descending = FALSE
    /\ preserved \in {<<>>, <<K1>>, <<K1, K2>>}
    /\ pc = "start"
    /\ merged = NotRun
    /\ result = NotRun
    /\ clearKeys \in ClearKeyTables
    /\ cleared = NotCleared
    /\ retried = NotRun
    /\ BlockIdle
    /\ RunIdle

\* clear_discrepant_processed_endpoint_tables_rows on a discrepancy table
\* whose key columns are clearKeys
ClearRows ==
    /\ pc = "start"
    /\ cleared' = ClearDiscrepantRows(clearKeys, tables, keyCols, preserved)
    /\ pc' = "cleared"
    /\ UNCHANGED <<tables, keyCols, descending, preserved, merged, result,
                   clearKeys, retried>>
    /\ UNCHANGED <<blockVars, runVars>>

NextClear == ClearRows

SpecClear == InitClear /\ [][NextClear]_vars

\* -------------------------------------------------------------- row packing
MaxPackRows == 2    \* rows of the consolidated table handed to the packing

\* Python's None in a cell of an entity table and in a typed row
None == "None"

\* ordered_entities of the data block: a sub-entity, the entity of the clock
\* sync field, the main entity
OrderedEntities == <<"Sub", "Row", "Data">>
ClockEntity == "Row"
ClockField == "date"

\* entity_dependencies: the sub-entity fields of each entity type
EntityDependencies(e) ==
    IF e = "Row" THEN [f \in {"sub"} |-> "Sub"]
    ELSE IF e = "Data" THEN [f \in {"rows"} |-> "Row"]
    ELSE <<>>

\* dataclasses.fields(entity)
RowFieldNames(e) ==
    IF e = "Sub" THEN {"a", "b", "m"}
    ELSE IF e = "Row" THEN {"date", "v", "sub"}
    ELSE {"rows"}

\* entity.__annotations__[name]
FieldType(e, f) == IF f = ClockField THEN "date" ELSE "Decimal | None"

\* table.column_names of the entity's table
ColumnNames(e) == IF e = "Sub" THEN {"a", "b"} ELSE {"date", "v"}

DependencyFieldNames(e) == DOMAIN EntityDependencies(e)

MissingFieldNames(e) == (RowFieldNames(e) \ ColumnNames(e)) \ DependencyFieldNames(e)

NonKeyCommonFieldNames(e) ==
    ((RowFieldNames(e) \ DependencyFieldNames(e)) \ MissingFieldNames(e)) \ {ClockField}

\* decimal.Decimal(str(original_value)) of the raw values that parse
DecimalOf(v) == IF v = "1" THEN "Decimal('1')" ELSE "Decimal('-1')"

\* a conversion that hands every value on as it is and never fails
ConvertValueToTypeUnchecked(v, type) == [kind |-> "value", value |-> v]

\* convert_value_to_type: a nullable type turns None and '' into None; a value
\* of the type already passes through; "x" does not parse as a Decimal
ConvertValueToType(v, type) ==
    IF type = "Decimal | None"
    THEN IF v \in {None, ""} THEN [kind |-> "value", value |-> None]
         ELSE IF v = "x"
         THEN [kind |-> "DataBlockTypeConversionRuntimeError", value |-> None]
         ELSE [kind |-> "value", value |-> DecimalOf(v)]
    ELSE [kind |-> "value", value |-> v]

\* date.isoformat()
IsoFormat(d) == IF d = "date(2024, 1, 1)" THEN "2024-01-01" ELSE "2024-01-02"

\* an entity type whose validation refuses nothing
EntityRejectsNothing(e, typed) == FALSE

\* the entity's validation rejecting the typed row: a negative amount
EntityRejects(e, typed) ==
    \E f \in NonKeyCommonFieldNames(e) : typed[f] = "Decimal('-1')"

\* entity(**typed_row), and None in lieu of an instance
Instance(e, typed) == [entity |-> e, fields |-> typed]
NoInstance == [entity |-> "NoneType", fields |-> <<>>]

\* master_rows[key] = value on a dict kept as the sequence of its items
DictSet(d, k, v) ==
    IF \E i \in DOMAIN d : d[i].key = k
    THEN [i \in DOMAIN d |-> IF d[i].key = k THEN [key |-> k, value |-> v] ELSE d[i]]
    ELSE Append(d, [key |-> k, value |-> v])

\* typed_row: missing fields None, the cells converted, the dependency fields
\* taken from the rows packed before at the same index
TypedRow(e, row, index, dependency) ==
    [f \in RowFieldNames(e) |->
        IF f \in MissingFieldNames(e) THEN None
        ELSE IF f \in DependencyFieldNames(e)
        THEN dependency[EntityDependencies(e)[f]][index]
        ELSE ConvertValueToType(row[f], FieldType(e, f)).value]

\* the loop over the rows of one entity's table, from row index on; st holds
\* dependency_rows, master_rows and entity_creation_exceptions (the indexes
\* of the rows whose construction failed)
RECURSIVE PackEntityRows(_, _, _, _)
PackEntityRows(e, rows, index, st) ==
    IF index > Len(rows) \/ st.kind # "ok" THEN st
    ELSE LET row == rows[index]
             typed == TypedRow(e, row, index, st.dependency)
         IN IF \A f \in NonKeyCommonFieldNames(e) : row[f] = None
            THEN PackEntityRows(e, rows, index + 1,
                     IF e = ClockEntity
                     THEN [st EXCEPT !.master =
                              DictSet(@, IsoFormat(row[ClockField]), NoInstance)]
                     ELSE [st EXCEPT !.dependency[e] = Append(@, NoInstance)])
            ELSE IF \E f \in DOMAIN row :
                        ConvertValueToType(row[f], FieldType(e, f)).kind # "value"
            THEN [st EXCEPT !.kind = "DataBlockEntityPackingError", !.failed = index]
            ELSE IF EntityRejects(e, typed)
            THEN PackEntityRows(e, rows, index + 1,
                     [st EXCEPT !.errors = Append(@, index)])
            ELSE PackEntityRows(e, rows, index + 1,
                     IF e = ClockEntity
                     THEN [st EXCEPT !.master =
                              DictSet(@, IsoFormat(row[ClockField]), Instance(e, typed))]
                     ELSE [st EXCEPT !.dependency[e] = Append(@, Instance(e, typed))])

\* the loop over ordered_entities from position k on
RECURSIVE PackEntities(_, _, _, _)
PackEntities(etm, k, st, attempted) ==
    LET e == OrderedEntities[k]
        after == IF e \in DOMAIN etm THEN PackEntityRows(e, etm[e], 1, st) ELSE st
        clockAt(i) == etm[ClockEntity][i][ClockField]
    IN IF k > Len(OrderedEntities)
       THEN IF Len(st.master) < 1
            THEN PackOutcome("DataBlockIncorrectPackingStructureError", <<>>, "", "", <<>>,
                             attempted)
            ELSE PackOutcome("rows", st.master, "", "", <<>>, attempted)
       ELSE IF e \notin DOMAIN etm
       THEN PackOutcome("DataBlockIncorrectPackingStructureError", <<>>, e, "", <<>>,
                        attempted)
       ELSE IF after.kind = "DataBlockEntityPackingError"
       THEN PackOutcome("DataBlockEntityPackingError", <<>>, e, clockAt(after.failed), <<>>,
                        Append(attempted, e))
       ELSE IF after.errors # <<>>
       THEN PackOutcome("DataBlockRowEntityErrorGroup", <<>>, e, "", after.errors,
                        Append(attempted, e))
       ELSE IF e = ClockEntity
       THEN PackEntities(etm, Len(OrderedEntities) + 1, after, Append(attempted, e))
       ELSE PackEntities(etm, k + 1, after, Append(attempted, e))

\* _pack_entity_hierarchy_rows
PackEntityHierarchyRows(etm) ==
    PackEntities(etm, 1,
        [kind |-> "ok", failed |-> 0, errors |-> <<>>, master |-> <<>>,
         dependency |-> [e \in Range(OrderedEntities) |-> <<>>]],
        <<>>)

\* _split_consolidated_table_into_entity_tables: the columns "Entity.field"
\* of the consolidated table grouped by entity, named by field
SplitConsolidatedTable(t) ==
    [e \in {c[1] : c \in Range(t.cols)} |->
        [i \in DOMAIN t.rows |->
            [f \in {c[2] : c \in {d \in Range(t.cols) : d[1] = e}} |-> t.rows[i][<<e, f>>]]]]

\* pack_rows_entities_from_consolidated_table
PackRowsEntities(t) == PackEntityHierarchyRows(SplitConsolidatedTable(t))

\* the toolkit not used
ToolkitIdle ==
    /\ tables = <<>>
    /\ keyCols = <<>>
    /\ descending = FALSE
    /\ preserved = <<>>
    /\ merged = NotRun
    /\ result = NotRun
    /\ clearKeys = EmptyTable
    /\ cleared = NotCleared
    /\ retried = NotRun

\* datetime.date values of the clock sync column
ClockValues == {"date(2024, 1, 1)", "date(2024, 1, 2)"}

PackColumns == <<<<"Row", "date">>, <<"Row", "v">>, <<"Sub", "a">>, <<"Sub", "b">>>>

\* the rows of a consolidated table: a clock value, raw amounts of the row
\* entity and of the sub-entity
PackRows ==
    {rw \in [Range(PackColumns) -> ClockValues \cup {None, "", "1", "x", "-1"}] :
        /\ rw[<<"Row", "date">>] \in ClockValues
        /\ rw[<<"Row", "v">>] \in {None, "", "1", "x", "-1"}
        /\ rw[<<"Sub", "a">>] \in {None, "x", "-1"}
        /\ rw[<<"Sub", "b">>] \in {None, "1"}}

InitPack ==
    /\ ToolkitIdle
    /\ RunIdle
    /\ schema = <<>>
    /\ relations = [kind |-> "none", order |-> <<>>]
    /\ \E rs \in SeqsUpTo(PackRows, MaxPackRows) : consolidated = Table(PackColumns, rs)
    /\ packed = NotPacked
    /\ pc = "start"

\* a call of pack_rows_entities_from_consolidated_table
Pack ==
    /\ pc = "start"
    /\ packed' = PackRowsEntities(consolidated)
    /\ pc' = "packed"
    /\ UNCHANGED <<runVars, toolkitVars, schema, relations, consolidated>>

NextPack == Pack

SpecPack == InitPack /\ [][NextPack]_vars

\* ----------------------------------------------- claims on the consolidation
DuplicateFree(ks) == \A m, n \in DOMAIN ks : ks[m] = ks[n] => m = n

DiscrepancyError == "DataProviderMultiEndpointCommonDataDiscrepancyError"

\* the endpoints that have the key columns and the column c
EndpointsWith(tbls, c) ==
    {i \in DOMAIN tbls : HasColumns(tbls[i], keyCols) /\ c \in Range(tbls[i].cols)}

RowsAtKey(t, k) == {q \in DOMAIN t.rows : KeyTuple(t.rows[q], keyCols) = k}

SuppliedKeys(t) == Range(KeyTuples(t, keyCols))

\* the values the endpoints hold for column c in their rows of key k
Supplied(tbls, c, k) ==
    UNION {{tbls[i].rows[q][c] : q \in RowsAtKey(tbls[i], k)} : i \in EndpointsWith(tbls, c)}

NonKeyColumns(tbls) == UNION {Range(tbls[i].cols) : i \in DOMAIN tbls} \ Range(keyCols)

\* the non-key columns two endpoints hold differing values for (null against
\* a value included) at a key both supplied
InputDiscrepancies(tbls) ==
    {c \in NonKeyColumns(tbls) :
        \E i, j \in EndpointsWith(tbls, c) :
            /\ i < j
            /\ \E k \in SuppliedKeys(tbls[i]) \cap SuppliedKeys(tbls[j]) :
                   \E q \in RowsAtKey(tbls[i], k) : \E r \in RowsAtKey(tbls[j], k) :
                       tbls[i].rows[q][c] # tbls[j].rows[r][c]}

KeyMergeSucceeds(tbls) ==
    MergePrimaryKeySubsets(PrimaryKeySubsets(tbls, keyCols), descending).kind = "table"

C4_ColumnFromSameQualifiedName ==
    (pc # "start" /\ Len(tables) >= 2 /\ result.kind = "table")
        => \A r \in DOMAIN result.table.rows :
               \A c \in Range(result.table.cols) \ Range(keyCols) :
                   result.table.rows[r][c] # NULL
                       => result.table.rows[r][c] \in
                              Supplied(tables, c, KeyTuple(result.table.rows[r], keyCols))

\* C10 as stated: a table returned by the consolidation, of one endpoint
\* table or more, has pairwise distinct key tuples, and an endpoint table
\* holding a key tuple twice makes the consolidation fail.
C10_ReturnedKeysDistinct ==
    (pc # "start")
        => /\ result.kind = "table"
                 => DuplicateFree(KeyTuples(result.table, keyCols))
           /\ (\E i \in DOMAIN tables : ~DuplicateFree(KeyTuples(tables[i], keyCols)))
                 => result.kind # "table"

\* ------------------------------------------------- claims on clear and retry
DiscrepantKeys == Range(KeyTuples(clearKeys, keyCols))

\* C5 as stated: after a discrepancy error, clearing with the error's
\* discrepancy table and key column names (the clock-sync column preserved)
\* and consolidating again raises nothing, and the result holds null in every
\* discrepant column at every discrepant key.
C5_ClearAndRetrySucceeds ==
    (pc = "retried" /\ K1 \in Range(preserved))
        => /\ retried.kind = "table"
           /\ \A k \in DiscrepantKeys : \A c \in result.discrepant_columns :
                  \E r \in DOMAIN retried.table.rows :
                      /\ KeyTuple(retried.table.rows[r], keyCols) = k
                      /\ retried.table.rows[r][c] = NULL

\* C6 as stated: clearing changes no key column value of any endpoint row,
\* whether the key column is a preserved column or not.
C6_ClearingKeepsKeyColumns ==
    (pc \in {"cleared", "retried"} /\ cleared.kind = "tables")
        => \A i \in DOMAIN tables : \A r \in DOMAIN tables[i].rows :
               \A c \in Range(keyCols) \cap Range(tables[i].cols) :
                   cleared.tables[i].rows[r][c] = tables[i].rows[r][c]

\* C7 as stated: every value an endpoint supplied in a column without
\* discrepancy, or at a key without discrepancy, is in the table of the retry.
C7_OnlyConflictingCellsLost ==
    (pc = "retried" /\ retried.kind = "table")
        => \A i \in DOMAIN tables : \A q \in DOMAIN tables[i].rows :
               \A c \in Range(tables[i].cols) \ Range(keyCols) :
                   (/\ HasColumns(tables[i], keyCols)
                    /\ tables[i].rows[q][c] # NULL
                    /\ \/ c \notin result.discrepant_columns
                       \/ KeyTuple(tables[i].rows[q], keyCols) \notin DiscrepantKeys)
                       => \E r \in DOMAIN retried.table.rows :
                              /\ KeyTuple(retried.table.rows[r], keyCols)
                                     = KeyTuple(tables[i].rows[q], keyCols)
                              /\ retried.table.rows[r][c] = tables[i].rows[q][c]

ClearKeyTuples == Range(KeyTuples(clearKeys, clearKeys.cols))

\* C8: clearing returns for every endpoint a table of the same columns and
\* the same number of rows; a row differs from the row given at its position
\* only if its key tuple is a key tuple of the clearing keys, and the preserved
\* columns hold the given values in every row.
C8_ClearingKeepsRowsAndPreserved ==
    (pc = "cleared" /\ cleared.kind = "tables")
        => \A i \in DOMAIN tables :
               /\ cleared.tables[i].cols = tables[i].cols
               /\ Len(cleared.tables[i].rows) = Len(tables[i].rows)
               /\ \A r \in DOMAIN tables[i].rows :
                      /\ cleared.tables[i].rows[r] # tables[i].rows[r]
                            => KeyTuple(tables[i].rows[r], clearKeys.cols) \in ClearKeyTuples
                      /\ \A c \in Range(preserved) :
                             cleared.tables[i].rows[r][c] = tables[i].rows[r][c]

\* one row cleared, another row with a value left as it was
C8_Witness ==
    /\ pc = "cleared" /\ cleared.kind = "tables"
    /\ preserved = <<K1, K2>>
    /\ \E r, q \in DOMAIN tables[1].rows :
           /\ cleared.tables[1].rows[r] # tables[1].rows[r]
           /\ cleared.tables[1].rows[q] = tables[1].rows[q]
           /\ tables[1].rows[q][AX] # NULL

\* C9 as stated: with a clearing key table of zero rows, or an endpoint table
\* of zero rows, the clearing raises nothing and returns the table as given.
C9_ClearingEmptyIsNoOp ==
    (pc = "cleared")
        => \A i \in DOMAIN tables :
               (Len(clearKeys.rows) = 0 \/ Len(tables[i].rows) = 0)
                   => /\ cleared.kind = "tables"
                      /\ cleared.tables[i] = tables[i]

\* ------------------------------------------------- claims on the order merge
\* the key sequence of endpoint i: its rows that are not all-null
EndpointKeys(i) == ValidKeyRows(tables[i], keyCols)

AllKeys == UNION {Range(EndpointKeys(i)) : i \in DOMAIN tables}

\* a comes before b in the sequence ks
Before(ks, a, b) == \E m, n \in DOMAIN ks : m < n /\ ks[m] = a /\ ks[n] = b

InputsDuplicateFree == \A i \in DOMAIN tables : DuplicateFree(EndpointKeys(i))

\* no two endpoints order the same two keys differently
PairwiseConsistent ==
    \A i, j \in DOMAIN tables : \A a, b \in AllKeys :
        ~(Before(EndpointKeys(i), a, b) /\ Before(EndpointKeys(j), b, a))

\* two endpoints order the same two keys differently
Contradiction ==
    \E i, j \in DOMAIN tables :
        /\ i # j
        /\ LET ki == EndpointKeys(i)
               kj == EndpointKeys(j)
           IN \E m, n \in DOMAIN ki : m < n /\ Before(kj, ki[n], ki[m])

\* one total order of all the keys agrees with every endpoint
JointlyConsistent ==
    \E p \in [1 .. Cardinality(AllKeys) -> AllKeys] :
        /\ Range(p) = AllKeys
        /\ \A i \in DOMAIN tables : \A a, b \in AllKeys :
               Before(EndpointKeys(i), a, b) => Before(p, a, b)

MergedOrder == KeyTuples(merged.table, keyCols)

\* the merge returned every key exactly once, each endpoint's order kept
MergedIsOrderedUnion ==
    /\ merged.kind = "table"
    /\ Range(MergedOrder) = AllKeys
    /\ DuplicateFree(MergedOrder)
    /\ \A i \in DOMAIN tables : \A a, b \in AllKeys :
           Before(EndpointKeys(i), a, b) => Before(MergedOrder, a, b)

RuntimeError == "DataProviderToolkitRuntimeError"

\* C11 as stated: a key table holding the same key tuple in two rows, all-null
\* tuples included, makes the merge raise DataProviderToolkitRuntimeError,
\* also for a list of one table.
C11_DuplicateRowsRaise ==
    (pc # "start" /\ \E i \in DOMAIN tables : ~DuplicateFree(KeyTuples(tables[i], keyCols)))
        => merged.kind = RuntimeError

\* C11 amended: a key table holding the same key tuple, not all null, in two
\* rows makes the merge raise DataProviderToolkitRuntimeError, also for a
\* list of one table; all-null rows are dropped before the check.
C11_DuplicateValidRowsRaise ==
    (pc # "start" /\ ~InputsDuplicateFree) => merged.kind = RuntimeError

\* a list of one table holding a key twice was rejected
C11_Witness ==
    /\ pc = "merged"
    /\ Len(tables) = 1
    /\ ~InputsDuplicateFree
    /\ merged.kind = RuntimeError

NoAllNullRows == \A i \in DOMAIN tables : EndpointKeys(i) = KeyTuples(tables[i], keyCols)

\* C12 as stated: the merge of a list of exactly one non-empty key table
\* without duplicate rows returns a table equal to that table.
C12_SingleTableUnchanged ==
    (/\ pc # "start" /\ Len(tables) = 1 /\ tables[1].rows # <<>>
     /\ DuplicateFree(KeyTuples(tables[1], keyCols)))
        => merged.kind = "table" /\ merged.table = tables[1]

\* C12 amended: the merge of a list of exactly one non-empty key table
\* without duplicate rows and without all-null rows returns a table equal to
\* that table; all-null rows are left out of the result.
C12_SingleValidTableUnchanged ==
    (/\ pc # "start" /\ Len(tables) = 1 /\ tables[1].rows # <<>>
     /\ DuplicateFree(KeyTuples(tables[1], keyCols)))
        => /\ merged.kind = "table"
           /\ KeyTuples(merged.table, keyCols) = EndpointKeys(1)
           /\ NoAllNullRows => merged.table = tables[1]

\* one table of two rows, the greater key first, merged in descending mode
C12_Witness ==
    /\ pc = "merged"
    /\ Len(tables) = 1 /\ Len(tables[1].rows) = 2 /\ NoAllNullRows
    /\ descending
    /\ tables[1].rows[1][K1] > tables[1].rows[2][K1]
    /\ merged.table = tables[1]

\* C13: for key tables one total order agrees with, the merge of the
\* row-reversed tables in descending mode returns the reverse of the
\* sequence the merge of the tables returns in ascending mode.
C13_DescendingOfReversedIsReverse ==
    (pc = "remerged")
        => /\ (InputsDuplicateFree /\ JointlyConsistent) => merged.kind = "table"
           /\ retried.kind = merged.kind
           /\ merged.kind = "table"
                 => KeyTuples(retried.table, keyCols) = Reverse(MergedOrder)

\* three keys from three tables, the descending merge returning them reversed
C13_Witness ==
    /\ pc = "remerged"
    /\ InputsDuplicateFree /\ JointlyConsistent
    /\ Len(tables) = 3 /\ Cardinality(AllKeys) = 3
    /\ Len(MergedOrder) = 3
    /\ KeyTuples(retried.table, keyCols) = Reverse(MergedOrder)

\* -------------------------------------------------- claims on the row packing
\* the declared fields of e that are neither the key nor a dependency
DataFieldNames(e) == (RowFieldNames(e) \ DependencyFieldNames(e)) \ {ClockField}

\* the cell of row i of the consolidated table for field f of entity e; a
\* declared field without a column is null
CellOf(i, e, f) ==
    IF <<e, f>> \in Range(consolidated.cols) THEN consolidated.rows[i][<<e, f>>] ELSE None

AllDataNull(i, e) == \A f \in DataFieldNames(e) : CellOf(i, e, f) = None

ClockOf(i) == consolidated.rows[i][<<ClockEntity, ClockField>>]

\* row i is the last row of its clock value
LastOfClock(i) == \A j \in DOMAIN consolidated.rows : ClockOf(j) = ClockOf(i) => j <= i

\* the value the returned row map holds for the clock value of row i
PackedAt(i) ==
    LET k == CHOOSE n \in DOMAIN packed.rows : packed.rows[n].key = IsoFormat(ClockOf(i))
    IN packed.rows[k].value

InstanceAllNull(inst) == \A f \in DataFieldNames(inst.entity) : inst.fields[f] = None

\* C14 as stated: in the returned row map a row is None exactly when all its
\* declared non-key, non-dependency fields are null in the table, likewise the
\* sub-entity of a row, and no instance has all its data fields None.
C14_NoneExactlyWhenAllNull ==
    (pc = "packed" /\ packed.kind = "rows")
        => \A i \in DOMAIN consolidated.rows :
               LastOfClock(i)
                   => /\ (PackedAt(i) = NoInstance) <=> AllDataNull(i, ClockEntity)
                      /\ PackedAt(i) # NoInstance
                            => /\ (PackedAt(i).fields["sub"] = NoInstance)
                                      <=> AllDataNull(i, "Sub")
                               /\ ~InstanceAllNull(PackedAt(i))
                               /\ PackedAt(i).fields["sub"] # NoInstance
                                      => ~InstanceAllNull(PackedAt(i).fields["sub"])

\* the row indexes of the entity tables, those of the consolidated table
EntityRows(e) == DOMAIN consolidated.rows

RowIsEmpty(e, i) == \A f \in NonKeyCommonFieldNames(e) : CellOf(i, e, f) = None

\* some cell of the non-empty row i of e does not convert to its field's type
RowFailsConversion(e, i) ==
    /\ ~RowIsEmpty(e, i)
    /\ \E f \in ColumnNames(e) : CellOf(i, e, f) = "x"

\* row i of e converts and the entity's validation refuses it
RowFailsValidation(e, i) ==
    /\ ~RowIsEmpty(e, i)
    /\ ~RowFailsConversion(e, i)
    /\ \E f \in NonKeyCommonFieldNames(e) : CellOf(i, e, f) = "-1"

EntityFails(e) ==
    \E i \in EntityRows(e) : RowFailsConversion(e, i) \/ RowFailsValidation(e, i)

PositionOf(e) == CHOOSE k \in DOMAIN OrderedEntities : OrderedEntities[k] = e

\* the entity types with a table
TableEntities == {c[1] : c \in Range(PackColumns)}

\* no entity type packed before e fails, so that the rows of e are packed
Reached(e) ==
    \A d \in TableEntities : PositionOf(d) < PositionOf(e) => ~EntityFails(d)

\* the indexes of the rows of e that fail validation, in row order
FailingIndexes(e) ==
    LET fails(i) == RowFailsValidation(e, i)
    IN SelectSeq([i \in EntityRows(e) |-> i], fails)

\* the packing raised the error group of e: one error per failing row, and no
\* entity type after e was packed
GroupRaisedFor(e) ==
    /\ packed.kind = "DataBlockRowEntityErrorGroup"
    /\ packed.entity = e
    /\ packed.errors = FailingIndexes(e)
    /\ packed.attempted = SubSeq(OrderedEntities, 1, PositionOf(e))

\* C15 as stated: when the construction of some row of an entity type fails
\* validation, all rows of that entity type are attempted, one error group
\* with exactly one error per failing row is raised, and the next entity type
\* is not packed.
C15_ValidationFailuresGrouped ==
    \A e \in TableEntities :
        (/\ pc = "packed"
         /\ Reached(e)
         /\ \E i \in EntityRows(e) :
                /\ RowFailsValidation(e, i)
                /\ \A j \in 1..(i - 1) : ~RowFailsConversion(e, j))
            => GroupRaisedFor(e)

\* C15, amended: the error group is raised when no row of that entity type
\* fails type conversion; when a row after the failing ones fails conversion,
\* the packing error of that row is raised at once instead of the group.
C15_ValidationFailuresGroupedUnlessConversionFails ==
    \A e \in TableEntities :
        (/\ pc = "packed"
         /\ Reached(e)
         /\ \E i \in EntityRows(e) : RowFailsValidation(e, i))
            => /\ (\A j \in EntityRows(e) : ~RowFailsConversion(e, j))
                      => GroupRaisedFor(e)
               /\ \A j \in EntityRows(e) :
                      (/\ RowFailsConversion(e, j)
                       /\ \A k \in 1..(j - 1) : ~RowFailsConversion(e, k))
                          => /\ packed.kind = "DataBlockEntityPackingError"
                             /\ packed.entity = e
                             /\ packed.clock = ClockOf(j)
                             /\ packed.errors = <<>>

\* two rows of the sub-entity fail validation: both are in the group, and the
\* row entity is not packed
C15_Witness ==
    /\ pc = "packed"
    /\ Len(consolidated.rows) = 2
    /\ RowFailsValidation("Sub", 1)
    /\ RowFailsValidation("Sub", 2)
    /\ packed.kind = "DataBlockRowEntityErrorGroup"
    /\ packed.errors = <<1, 2>>
    /\ packed.attempted = <<"Sub">>

\* the rows of e that fail type conversion
ConversionFailures(e) == {i \in EntityRows(e) : RowFailsConversion(e, i)}

\* C16 as stated: when cells in several rows of one entity type fail type
\* conversion, all rows are attempted and one aggregate error holding every
\* failing row's error is raised.
C16_ConversionFailuresAggregated ==
    \A e \in TableEntities :
        (pc = "packed" /\ Reached(e) /\ Cardinality(ConversionFailures(e)) > 1)
            => /\ packed.kind = "DataBlockRowEntityErrorGroup"
               /\ ConversionFailures(e) \subseteq Range(packed.errors)

\* C16, amended: packing stops at the first row of the entity type that fails
\* type conversion and raises one packing error naming the entity type and
\* the clock value of that row; nothing is aggregated and no rows are returned.
C16_FirstConversionFailureRaised ==
    \A e \in TableEntities :
        (pc = "packed" /\ Reached(e) /\ ConversionFailures(e) # {})
            => LET first == CHOOSE i \in ConversionFailures(e) :
                                \A j \in ConversionFailures(e) : i <= j
               IN /\ packed.kind = "DataBlockEntityPackingError"
                  /\ packed.entity = e
                  /\ packed.clock = ClockOf(first)
                  /\ packed.errors = <<>>
                  /\ packed.rows = <<>>
                  /\ packed.attempted = SubSeq(OrderedEntities, 1, PositionOf(e))

\* two rows of the row entity with different clock values fail conversion and
\* the error names the first
C16_Witness ==
    /\ pc = "packed"
    /\ ConversionFailures("Row") = {1, 2}
    /\ ClockOf(1) # ClockOf(2)
    /\ packed.kind = "DataBlockEntityPackingError"
    /\ packed.entity = "Row"
    /\ packed.clock = ClockOf(1)

\* C20 as stated: the returned row map has exactly one entry per row of the
\* consolidated table, keyed by the ISO date of the row's clock value, in the
\* row order of the table.
C20_OneEntryPerRowInRowOrder ==
    (pc = "packed" /\ packed.kind = "rows")
        => /\ Len(packed.rows) = Len(consolidated.rows)
           /\ \A i \in DOMAIN consolidated.rows :
                  packed.rows[i].key = IsoFormat(ClockOf(i))

\* ------------------------------------------------- entity relation resolver
MaxFields == 2      \* sub-entity fields of one entity type

\* the entity types a schema is declared over, and its main entity
EntityTypes == {"Data", "Row", "Sub"}
MainEntity == "Data"

\* the schemas: for each entity type the entity types of its sub-entity
\* fields, in the order of dataclasses.fields
Schemas == [EntityTypes -> SeqsUpTo(EntityTypes, MaxFields)]

\* first pass: the queue entities_to_process, the set processed_entities and
\* the keys of all_entities_with_deps in insertion order
RECURSIVE CollectEntities(_, _, _, _)
CollectEntities(sch, queue, processed, collected) ==
    IF queue = <<>> THEN collected
    ELSE LET entity_class == Head(queue)
             unprocessed(inner_type) == inner_type \notin processed \cup {entity_class}
         IN IF entity_class \in processed
            THEN CollectEntities(sch, Tail(queue), processed, collected)
            ELSE CollectEntities(sch,
                                 Tail(queue) \o SelectSeq(sch[entity_class], unprocessed),
                                 processed \cup {entity_class},
                                 Append(collected, entity_class))

\* the keys of all_entities_with_deps, in first-discovery order
AllEntitiesWithDeps(sch) == CollectEntities(sch, <<MainEntity>>, {}, <<>>)

\* every remaining entity type counted as ready, whatever it embeds
ReadyWithoutDependencies(sch, remaining, ordered) == remaining

\* the entities of remaining_entities whose dependencies are all in result
ReadyEntities(sch, remaining, ordered) ==
    {entity \in remaining : \A k \in DOMAIN sch[entity] : sch[entity][k] \in Range(ordered)}

\* the orders in which the iteration of a set can yield its elements
IterationOrders(S) ==
    {order \in [1..Cardinality(S) -> S] :
        \A i, j \in 1..Cardinality(S) : order[i] = order[j] => i = j}

\* second pass: the key orders the loop over the rounds can produce;
\* ready_entities is filled by iterating the set remaining_entities, whose
\* iteration order follows the hashes of the classes, and a round without a
\* ready entity leaves the loop with the result built so far
RECURSIVE SortedEntityOrders(_, _, _)
SortedEntityOrders(sch, remaining, ordered) ==
    IF remaining = {} THEN {ordered}
    ELSE LET ready == ReadyEntities(sch, remaining, ordered)
         IN IF ready = {} THEN {ordered}
            ELSE UNION {SortedEntityOrders(sch, remaining \ ready, ordered \o order) :
                           order \in IterationOrders(ready)}

\* _calculate_ordered_entity_relation_map: the possible key orders of the
\* returned map; the value of a key is the entity's own field map
CalculateOrderedEntityRelationMap(sch) ==
    SortedEntityOrders(sch, Range(AllEntitiesWithDeps(sch)), <<>>)

InitRelations ==
    /\ ToolkitIdle
    /\ RunIdle
    /\ schema \in Schemas
    /\ relations = [kind |-> "none", order |-> <<>>]
    /\ consolidated = EmptyTable
    /\ packed = NotPacked
    /\ pc = "start"

\* a call of _calculate_ordered_entity_relation_map for the main entity
CalculateRelations ==
    /\ pc = "start"
    /\ \E order \in CalculateOrderedEntityRelationMap(schema) :
           relations' = [kind |-> "map", order |-> order]
    /\ pc' = "resolved"
    /\ UNCHANGED <<runVars, toolkitVars, schema, consolidated, packed>>

NextRelations == CalculateRelations

SpecRelations == InitRelations /\ [][NextRelations]_vars

\* ------------------------------------------ claims on the relation resolver
\* the entity types of S and all they embed, directly or not
RECURSIVE EmbeddedClosure(_, _)
EmbeddedClosure(sch, S) ==
    LET next == S \cup UNION {Range(sch[e]) : e \in S}
    IN IF next = S THEN S ELSE EmbeddedClosure(sch, next)

\* the entity types reachable from the main entity, itself included
ReachableEntities(sch) == EmbeddedClosure(sch, {MainEntity})

\* some reachable entity type embeds itself, directly or not
Cyclic(sch) ==
    \E e \in ReachableEntities(sch) : e \in EmbeddedClosure(sch, Range(sch[e]))

IsLeaf(sch, e) == sch[e] = <<>>

C18_CycleIsFatal ==
    (pc = "resolved" /\ Cyclic(schema)) => relations.kind # "map"

\* the position of e in the first-discovery order
DiscoveryPosition(sch, e) ==
    CHOOSE i \in DOMAIN AllEntitiesWithDeps(sch) : AllEntitiesWithDeps(sch)[i] = e

\* the entity types of S in first-discovery order
InDiscoveryOrder(sch, S) ==
    CHOOSE order \in IterationOrders(S) :
        \A i, j \in DOMAIN order :
            i < j => DiscoveryPosition(sch, order[i]) < DiscoveryPosition(sch, order[j])

\* the key order with each round appended in first-discovery order
RECURSIVE DiscoveryOrderedRounds(_, _, _)
DiscoveryOrderedRounds(sch, remaining, ordered) ==
    LET ready == {e \in remaining : Range(sch[e]) \subseteq Range(ordered)}
    IN IF ready = {} THEN ordered
       ELSE DiscoveryOrderedRounds(sch, remaining \ ready,
                                   ordered \o InDiscoveryOrder(sch, ready))

\* C19 as stated: the entity types ready in the same round are appended in
\* first-discovery order, so the key order of the map is the same on every
\* run.
C19_RoundsInDiscoveryOrder ==
    pc = "resolved"
        => relations.order = DiscoveryOrderedRounds(schema, ReachableEntities(schema), <<>>)

\* ------------------------------------------------- endpoint table processing
MaxCalls == 2       \* calls of process_endpoint_tables in one process

\* the provider's tag names, the columns of a raw endpoint table
TagNames == <<"t1", "t2">>

\* the fields of entity A mapped by an endpoint field map, in dict order
MappedFields == <<"x", "y">>

\* a mapping value: the tag name alone (a str), or a PreprocessedFieldMapping
\* of that tag with the preprocessor convert_millions_to_units
MappingValues == [tag : Range(TagNames), preprocessed : BOOLEAN]

\* endpoint_field_map of the one endpoint: a mapping value per field
EndpointFieldMaps == [Range(MappedFields) -> MappingValues]

\* the remapped column name "A.x" of a tag name, "A.x$tag" of a preprocessed
\* mapping
ColumnRemap(field, mapping) ==
    IF mapping.preprocessed THEN <<"A", field, mapping.tag>> ELSE <<"A", field>>

\* _calculate_endpoint_column_remaps: for each tag the column remaps, in the
\* order of the fields
CalculateEndpointColumnRemaps(endpoint_field_map) ==
    {[tag |-> t,
      remaps |-> LET uses(f) == endpoint_field_map[f].tag = t
                     fields == SelectSeq(MappedFields, uses)
                 IN [i \in DOMAIN fields |->
                        ColumnRemap(fields[i], endpoint_field_map[fields[i]])]] :
        t \in {endpoint_field_map[f].tag : f \in Range(MappedFields)}}

\* _calculate_endpoint_field_preprocessors: the fields with a
\* PreprocessedFieldMapping
CalculateEndpointFieldPreprocessors(endpoint_field_map) ==
    {[field |-> f, tag |-> endpoint_field_map[f].tag] :
        f \in {g \in Range(MappedFields) : endpoint_field_map[g].preprocessed}}

\* the column remaps of a tag name, none when the tag is not mapped
RemapsOf(column_remaps, t) ==
    IF \E r \in column_remaps : r.tag = t
    THEN (CHOOSE r \in column_remaps : r.tag = t).remaps
    ELSE <<>>

RECURSIVE Concat(_)
Concat(ss) == IF ss = <<>> THEN <<>> ELSE Head(ss) \o Concat(Tail(ss))

\* the tag name a remapped column was copied from
TagOfRemap(column_remaps, c) ==
    CHOOSE t \in Range(TagNames) : c \in Range(RemapsOf(column_remaps, t))

\* _remap_endpoint_table_columns for the one endpoint: a column per remap of
\* each column of the table, the unmapped columns dropped
RemapEndpointTableColumns(column_remaps, table) ==
    LET cols == Concat([i \in DOMAIN table.cols |-> RemapsOf(column_remaps, table.cols[i])])
    IN Table(cols,
             [i \in DOMAIN table.rows |->
                 [c \in Range(cols) |-> table.rows[i][TagOfRemap(column_remaps, c)]]])

\* DataProviderFieldPreprocessors.convert_millions_to_units
ConvertMillionsToUnits(v) == IF v = NULL THEN NULL ELSE v * 1000000

\* _process_remapped_endpoint_tables for the one endpoint: the input columns
\* "A.x$tag" of the preprocessed fields removed, their outputs "A.x" added
\* after the columns kept
ProcessRemappedEndpointTables(field_preprocessors, table) ==
    IF field_preprocessors = {} THEN table
    ELSE LET columns_to_remove == {<<"A", p.field, p.tag>> : p \in field_preprocessors}
             kept(c) == c \notin columns_to_remove
             isnew(f) == \E p \in field_preprocessors : p.field = f
             newFields == SelectSeq(MappedFields, isnew)
             new_columns == [i \in DOMAIN newFields |-> <<"A", newFields[i]>>]
             tagOf(f) == (CHOOSE p \in field_preprocessors : p.field = f).tag
             cols == SelectSeq(table.cols, kept) \o new_columns
         IN Table(cols,
                  [i \in DOMAIN table.rows |->
                      [c \in Range(cols) |->
                          IF c \in Range(new_columns)
                          THEN ConvertMillionsToUnits(
                                   table.rows[i][<<"A", c[2], tagOf(c[2])>>])
                          ELSE table.rows[i][c]]])

\* the remapping and preprocessing of lines 515-528 with the given tables
RemapAndProcess(column_remaps, field_preprocessors, endpoint_table) ==
    ProcessRemappedEndpointTables(field_preprocessors,
        RemapEndpointTableColumns(column_remaps, endpoint_table))

\* the raw endpoint tables: the tag columns, no row or one
EndpointTables ==
    {Table(TagNames, rs) : rs \in SeqsUpTo([Range(TagNames) -> CellValues], 1)}

\* cache[data_block], filled from the field map when the data block is not
\* a key of the cache yet
CacheFilled(cache, data_block, value) ==
    IF cache[data_block].cached THEN cache
    ELSE [cache EXCEPT ![data_block] = [cached |-> TRUE, value |-> value]]

InitProcess ==
    /\ ToolkitIdle
    /\ BlockIdle
    /\ RunIdle
    /\ pc = "start"

\* a call of process_endpoint_tables
ProcessEndpointTables ==
    /\ calls < MaxCalls
    /\ \E data_block \in DataBlocks, endpoint_field_map \in EndpointFieldMaps,
          endpoint_table \in EndpointTables :
          IF Len(endpoint_table.rows) = 0
          THEN /\ lastProcessed' =
                      [kind |-> "DataProviderToolkitNoDataError", table |-> EmptyTable,
                       data_block |-> data_block,
                       endpoint_field_map |-> endpoint_field_map,
                       endpoint_table |-> endpoint_table]
               /\ UNCHANGED <<data_block_endpoint_column_remaps,
                              data_block_endpoint_field_preprocessors>>
          ELSE LET remaps == CacheFilled(data_block_endpoint_column_remaps, data_block,
                                 CalculateEndpointColumnRemaps(endpoint_field_map))
                   preprocessors ==
                       CacheFilled(data_block_endpoint_field_preprocessors, data_block,
                           CalculateEndpointFieldPreprocessors(endpoint_field_map))
               IN /\ data_block_endpoint_column_remaps' = remaps
                  /\ data_block_endpoint_field_preprocessors' = preprocessors
                  /\ lastProcessed' =
                         [kind |-> "tables",
                          table |-> RemapAndProcess(remaps[data_block].value,
                                        preprocessors[data_block].value, endpoint_table),
                          data_block |-> data_block,
                          endpoint_field_map |-> endpoint_field_map,
                          endpoint_table |-> endpoint_table]
    /\ calls' = calls + 1
    /\ pc' = "processed"
    /\ UNCHANGED <<toolkitVars, blockVars, mainVars, fetchVars>>

NextProcess == ProcessEndpointTables

SpecProcess == InitProcess /\ [][NextProcess]_vars

\* ------------------------------------------ claims on the endpoint processing
\* what the call computes from its own arguments alone
ProcessedFromArguments(endpoint_field_map, endpoint_table) ==
    RemapAndProcess(CalculateEndpointColumnRemaps(endpoint_field_map),
                    CalculateEndpointFieldPreprocessors(endpoint_field_map),
                    endpoint_table)

\* C21 as stated: every call of process_endpoint_tables returns the tables
\* remapped and preprocessed with the field map passed to that call, whatever
\* calls preceded it.
C21_ProcessedWithOwnFieldMap ==
    lastProcessed.kind = "tables"
        => lastProcessed.table =
               ProcessedFromArguments(lastProcessed.endpoint_field_map,
                                      lastProcessed.endpoint_table)

\* --------------------------------------------------------------- the main loop
MaxIdentifiers == 2     \* identifiers of the configuration

\* pipeline_chunk_size of a provider that declares none
NoChunkSize == 0

AllIdentifiers == <<"AAA", "BBB", "CCC", "DDD">>

\* how the loading of one identifier's data (get_market_data,
\* get_fundamental_data, get_dividend_data, get_split_data) and the building
\* of its columns can end
LoadOutcomes ==
    {"ok", "IdentifierNotFoundError", "EntityProcessingError", "DataProviderPaymentError",
     "DataBlockRowEntityErrorGroup", "LSEGProviderError", "DataProviderToolkitNoDataError",
     "DataProviderMultiEndpointCommonDataDiscrepancyError",
     "DataProviderToolkitRuntimeError", "ApiEndpointError",
     "ColumnBuilderUnavailableEntityFieldError"}

\* the errors of the first pass after which the identifier is only skipped
SkippedErrors ==
    {"IdentifierNotFoundError", "EntityProcessingError", "DataProviderPaymentError",
     "DataBlockRowEntityErrorGroup"}

\* the retried errors with a skipped error among them
RetriedErrorsAndNotFound ==
    {"LSEGProviderError", "DataProviderToolkitNoDataError", "IdentifierNotFoundError"}

\* the retried errors with the successful load among them
RetriedErrorsAndOk == {"LSEGProviderError", "DataProviderToolkitNoDataError", "ok"}

\* the errors of the first pass after which the identifier is appended to
\* failed_tickers
RetriedErrors == {"LSEGProviderError", "DataProviderToolkitNoDataError"}

\* the errors the handler of the retry pass catches
RetryCaughtErrors == SkippedErrors \cup RetriedErrors

\* the errors the handler around the chunk loop catches and logs as critical
CriticalErrors == {"ApiEndpointError", "ColumnBuilderUnavailableEntityFieldError"}

\* how provider.initialize and refetch_tickers can end
ProviderOutcomes == {"ok", "MemoryError", "LSEGFatalError", "ApiEndpointError"}

\* main left by the error kind: logged as critical by the outer handler, or
\* propagated to the caller of main
EndedBy(kind, during) ==
    /\ raised' = [kind |-> kind, during |-> during]
    /\ pc' = IF kind \in CriticalErrors THEN "critical" ELSE "raised"

total_identifiers == Len(identifiers)

\* configuration.identifiers[chunk_start:chunk_start + chunk_size]
chunk_ids ==
    SubSeq(identifiers, chunk_start + 1,
           IF chunk_start + chunk_size < total_identifiers
           THEN chunk_start + chunk_size ELSE total_identifiers)

\* the start index left where it is at the end of a chunk
SameChunkStart(start, size) == start

\* chunk_start += chunk_size
NextChunkStart(start, size) == start + size

InitMain ==
    /\ ToolkitIdle
    /\ BlockIdle
    /\ CacheIdle
    /\ FetchIdle
    /\ \E n \in 0..MaxIdentifiers : identifiers = SubSeq(AllIdentifiers, 1, n)
    /\ fallback_chunk_size \in {NoChunkSize} \cup 1..MaxIdentifiers
    /\ chunk_size = Len(identifiers)
    /\ chunk_start = 0
    /\ position = 0
    /\ failed_tickers = <<>>
    /\ first_outcome = [i \in Range(identifiers) |-> <<>>]
    /\ retry_outcome = [i \in Range(identifiers) |-> <<>>]
    /\ outputs = [i \in Range(identifiers) |-> 0]
    /\ raised = NotRaised
    /\ pc = "loop"

\* the head of the chunk loop: both providers initialize for the chunk
InitializeChunk ==
    /\ pc = "loop"
    /\ chunk_start < total_identifiers
    /\ position' = 0
    /\ failed_tickers' = <<>>
    /\ pc' = "first"
    /\ UNCHANGED <<identifiers, fallback_chunk_size, chunk_size, chunk_start,
                   first_outcome, retry_outcome, outputs, raised>>
    /\ UNCHANGED <<toolkitVars, blockVars, cacheVars, fetchVars>>

\* initialize raises: the chunk size is lowered to the provider's chunk size
\* and the same chunk_start retried, or the error is raised again
InitializeFails ==
    /\ pc = "loop"
    /\ chunk_start < total_identifiers
    /\ \E kind \in ProviderOutcomes \ {"ok"} :
          IF fallback_chunk_size # NoChunkSize /\ chunk_size > fallback_chunk_size
          THEN /\ chunk_size' = fallback_chunk_size
               /\ UNCHANGED <<pc, raised>>
          ELSE /\ EndedBy(kind, "initialize")
               /\ UNCHANGED chunk_size
    /\ UNCHANGED <<identifiers, fallback_chunk_size, chunk_start, position,
                   failed_tickers, first_outcome, retry_outcome, outputs>>
    /\ UNCHANGED <<toolkitVars, blockVars, cacheVars, fetchVars>>

\* the body of the first pass for the next identifier of the chunk
LoadIdentifier ==
    /\ pc = "first"
    /\ position < Len(chunk_ids)
    /\ LET main_identifier == chunk_ids[position + 1]
       IN \E outcome \in LoadOutcomes :
             /\ first_outcome' = [first_outcome EXCEPT ![main_identifier] = Append(@, outcome)]
             /\ outputs' = IF outcome = "ok"
                           THEN [outputs EXCEPT ![main_identifier] = @ + 1]
                           ELSE outputs
             /\ failed_tickers' = IF outcome \in RetriedErrors
                                  THEN Append(failed_tickers, main_identifier)
                                  ELSE failed_tickers
             /\ IF outcome \in {"ok"} \cup SkippedErrors \cup RetriedErrors
                THEN /\ position' = position + 1
                     /\ UNCHANGED <<pc, raised>>
                ELSE /\ EndedBy(outcome, "load")
                     /\ UNCHANGED position
    /\ UNCHANGED <<identifiers, fallback_chunk_size, chunk_size, chunk_start, retry_outcome>>
    /\ UNCHANGED <<toolkitVars, blockVars, cacheVars, fetchVars>>

\* the end of the first pass: without failed tickers the chunk is done, with
\* failed tickers both providers refetch them
EndFirstPass ==
    /\ pc = "first"
    /\ position = Len(chunk_ids)
    /\ IF failed_tickers = <<>>
       THEN /\ chunk_start' = NextChunkStart(chunk_start, chunk_size)
            /\ pc' = "loop"
            /\ UNCHANGED <<position, raised>>
       ELSE \E kind \in ProviderOutcomes :
               IF kind = "ok"
               THEN /\ position' = 0
                    /\ pc' = "retry"
                    /\ UNCHANGED <<chunk_start, raised>>
               ELSE /\ EndedBy(kind, "refetch")
                    /\ UNCHANGED <<chunk_start, position>>
    /\ UNCHANGED <<identifiers, fallback_chunk_size, chunk_size, failed_tickers,
                   first_outcome, retry_outcome, outputs>>
    /\ UNCHANGED <<toolkitVars, blockVars, cacheVars, fetchVars>>

\* the body of the retry pass for the next failed ticker
RetryIdentifier ==
    /\ pc = "retry"
    /\ position < Len(failed_tickers)
    /\ LET main_identifier == failed_tickers[position + 1]
       IN \E outcome \in LoadOutcomes :
             /\ retry_outcome' = [retry_outcome EXCEPT ![main_identifier] = Append(@, outcome)]
             /\ outputs' = IF outcome = "ok"
                           THEN [outputs EXCEPT ![main_identifier] = @ + 1]
                           ELSE outputs
             /\ IF outcome \in {"ok"} \cup RetryCaughtErrors
                THEN /\ position' = position + 1
                     /\ UNCHANGED <<pc, raised>>
                ELSE /\ EndedBy(outcome, "retry")
                     /\ UNCHANGED position
    /\ UNCHANGED <<identifiers, fallback_chunk_size, chunk_size, chunk_start,
                   failed_tickers, first_outcome>>
    /\ UNCHANGED <<toolkitVars, blockVars, cacheVars, fetchVars>>

\* the end of the retry pass
EndRetryPass ==
    /\ pc = "retry"
    /\ position = Len(failed_tickers)
    /\ chunk_start' = NextChunkStart(chunk_start, chunk_size)
    /\ pc' = "loop"
    /\ UNCHANGED <<identifiers, fallback_chunk_size, chunk_size, position,
                   failed_tickers, first_outcome, retry_outcome, outputs, raised>>
    /\ UNCHANGED <<toolkitVars, blockVars, cacheVars, fetchVars>>

\* the chunk loop left: "Finished processing data!"
Finish ==
    /\ pc = "loop"
    /\ chunk_start >= total_identifiers
    /\ pc' = "finished"
    /\ UNCHANGED <<toolkitVars, blockVars, runVars>>

NextMain ==
    \/ InitializeChunk
    \/ InitializeFails
    \/ LoadIdentifier
    \/ EndFirstPass
    \/ RetryIdentifier
    \/ EndRetryPass
    \/ Finish

SpecMain == InitMain /\ [][NextMain]_vars

\* main runs on: the providers and the handlers return
SpecMainFair == SpecMain /\ WF_vars(NextMain)

\* ----------------------------------------------------- claims on the main loop
Ended == pc \in {"finished", "raised", "critical"}

\* the errors of one identifier's data the orchestrator is to survive: not
\* found, the packing error group, a discrepancy left after clear-and-retry
IdentifierDataErrors ==
    {"IdentifierNotFoundError", "DataBlockRowEntityErrorGroup",
     "DataProviderMultiEndpointCommonDataDiscrepancyError"}

\* C22 as stated: an error of one identifier's data makes main skip only that
\* identifier; it never ends the run.
C22_DataErrorSkipsOnlyIdentifier ==
    Ended => raised.kind \notin IdentifierDataErrors

\* C23: the chunk loop terminates; the chunk size changes only from all
\* identifiers to the provider's smaller chunk size, at the same start index;
\* the loop head is repeated without a chunk only by that one lowering, any
\* other initialization failure ends main; every completed chunk advances
\* the start index.
C23_ChunkLoopTerminates ==
    /\ <>Ended
    /\ [][chunk_size' # chunk_size
             => /\ chunk_size = total_identifiers
                /\ chunk_size' = fallback_chunk_size
                /\ chunk_size' < chunk_size
                /\ chunk_start' = chunk_start]_vars
    /\ [][(pc = "loop" /\ pc' = "loop") => chunk_size' < chunk_size]_vars
    /\ [][(pc \in {"first", "retry"} /\ pc' = "loop") => chunk_start' > chunk_start]_vars

\* the bulk initialization failed, the chunk size was lowered, and the run
\* finished after more than one chunk
C23_Witness ==
    /\ pc = "finished"
    /\ Len(identifiers) > 1
    /\ chunk_size = fallback_chunk_size
    /\ chunk_size < Len(identifiers)

\* C24: the output handlers are invoked at most once per identifier, first
\* pass and retry pass together.
C24_OutputAtMostOnce ==
    \A i \in DOMAIN outputs : outputs[i] <= 1

\* one identifier put out in the first pass, another after its retry
C24_Witness ==
    /\ pc = "finished"
    /\ \E i, j \in DOMAIN outputs :
          /\ first_outcome[i] = <<"ok">>
          /\ first_outcome[j] = <<"LSEGProviderError">>
          /\ retry_outcome[j] = <<"ok">>
          /\ outputs[i] = 1
          /\ outputs[j] = 1

RetriedFirstOutcomes == {<<"LSEGProviderError">>, <<"DataProviderToolkitNoDataError">>}

\* C25 as stated: when main has ended, the identifiers retried are exactly
\* those whose first load ended with LSEGProviderError or
\* DataProviderToolkitNoDataError.
C25_RetriedExactlyWhenTransient ==
    Ended => \A i \in DOMAIN first_outcome :
                 (retry_outcome[i] # <<>>) <=> (first_outcome[i] \in RetriedFirstOutcomes)

\* C25, amended: an identifier is loaded at most once in each pass; it is
\* retried only after a first load that ended with one of the two errors, and
\* it is retried whenever main reaches its end without an error; after a
\* failed retry it has no output.
C25_RetriedOnlyWhenTransient ==
    \A i \in DOMAIN first_outcome :
        /\ Len(first_outcome[i]) <= 1
        /\ Len(retry_outcome[i]) <= 1
        /\ retry_outcome[i] # <<>> => first_outcome[i] \in RetriedFirstOutcomes
        /\ (pc = "finished" /\ first_outcome[i] \in RetriedFirstOutcomes)
               => retry_outcome[i] # <<>>
        /\ (retry_outcome[i] # <<>> /\ retry_outcome[i] # <<"ok">>) => outputs[i] = 0

\* one identifier retried without success, another skipped without a retry
C25_Witness ==
    /\ pc = "finished"
    /\ \E i, j \in DOMAIN first_outcome :
          /\ first_outcome[i] = <<"DataProviderToolkitNoDataError">>
          /\ retry_outcome[i] = <<"LSEGProviderError">>
          /\ first_outcome[j] = <<"IdentifierNotFoundError">>
          /\ retry_outcome[j] = <<>>

\* ------------------------------------------------ requests of the LSEG provider
MaxTickers == 3     \* tickers a fetch is called with

MAX_FETCH_ATTEMPTS == 1
MAX_PARTITION_ROUNDS == 3
MINI_BULK_BATCH_SIZE == 5
MINI_BULK_MAX_BATCH_SIZE == 10
RATE_LIMIT_ERROR_CODE == 429
BAD_REQUEST_ERROR_CODE == 400
AUTHENTICATION_ERROR_CODE == 401
AUTHORIZATION_ERROR_CODE == 403
SERVICE_UNAVAILABLE_ERROR_CODE == 503
FIELD_NOT_RECOGNIZED_ERROR_CODE == 207
GATEWAY_TIMEOUT_ERROR_CODE == 2504
\* a server error, the code of no branch of the classification
SERVER_ERROR_CODE == 500

\* mini_bulk_batch_size=None
NoBatchSize == 0

\* the RICs of the universe, in sorted() order
AllTickers == <<"AAA.N", "BBB.N", "CCC.N", "DDD.N">>

\* an instrument nobody asked for
ForeignRic == "ZZZ.N"

\* the messages of an RDError
ErrorMessages ==
    {"", "Unrecognized Period=FQ0", "Backend error", "invalid_grant",
     "Session quota reached"}

\* pattern.upper() in error_message_upper, for the patterns of FATAL_ERROR_MESSAGES
HasFatalMessage(message) == message = "Unrecognized Period=FQ0"
\* _BACKEND_ERROR_PATTERN.search(error_message)
HasBackendError(message) == message = "Backend error"
\* _AUTH_ERROR_PATTERN.search(error_message)
HasAuthError(message) == message = "invalid_grant"
\* _SESSION_QUOTA_PATTERN.search(error_message)
HasSessionQuota(message) == message = "Session quota reached"

ErrorCodes ==
    {RATE_LIMIT_ERROR_CODE, BAD_REQUEST_ERROR_CODE, AUTHENTICATION_ERROR_CODE,
     AUTHORIZATION_ERROR_CODE, SERVICE_UNAVAILABLE_ERROR_CODE,
     FIELD_NOT_RECOGNIZED_ERROR_CODE, GATEWAY_TIMEOUT_ERROR_CODE, SERVER_ERROR_CODE}

\* what refinitiv answers to one request
Response(kind, rics, instrument, code, message) ==
    [kind |-> kind, rics |-> rics, instrument |-> instrument, code |-> code,
     message |-> message]

\* the answers to a request for tk: a frame with rows for some instruments and
\* with or without the Instrument column, None, an RDError, or another error
Responses(tk) ==
    {Response("DataFrame", S, i, 0, "") :
        S \in SUBSET (Range(tk) \cup {ForeignRic}), i \in BOOLEAN}
    \cup {Response("RDError", {}, FALSE, c, m) : c \in ErrorCodes, m \in ErrorMessages}
    \cup {Response(k, {}, FALSE, 0, "") : k \in {"None", "KeyError", "ValueError"}}

\* _classify_lseg_error
ClassifyLsegError(error) ==
    IF HasFatalMessage(error.message) THEN "LSEGFatalError"
    ELSE IF error.code = FIELD_NOT_RECOGNIZED_ERROR_CODE THEN "LSEGFatalError"
    ELSE IF error.code = GATEWAY_TIMEOUT_ERROR_CODE THEN "LSEGGatewayTimeoutError"
    ELSE IF error.code = AUTHENTICATION_ERROR_CODE THEN "LSEGAuthenticationError"
    ELSE IF error.code = AUTHORIZATION_ERROR_CODE THEN "LSEGAuthorizationError"
    ELSE IF error.code \in {RATE_LIMIT_ERROR_CODE, SERVICE_UNAVAILABLE_ERROR_CODE}
        THEN "LSEGRateLimitError"
    ELSE IF error.code = BAD_REQUEST_ERROR_CODE
        THEN IF HasBackendError(error.message) THEN "LSEGPlatformOverloadError"
             ELSE IF HasAuthError(error.message) THEN "LSEGAuthenticationError"
             ELSE IF HasSessionQuota(error.message) THEN "LSEGSessionQuotaError"
             ELSE "LSEGFatalError"
    ELSE "LSEGServerError"

\* the subclasses of LSEGProviderError a request is classified into
LSEGProviderErrors ==
    {"LSEGFatalError", "LSEGAuthenticationError", "LSEGSessionQuotaError",
     "LSEGAuthorizationError", "LSEGRateLimitError", "LSEGPlatformOverloadError",
     "LSEGGatewayTimeoutError", "LSEGServerError"}

\* the retryable attribute of the error classes
Retryable(class) == class \notin {"LSEGFatalError", "LSEGAuthorizationError"}

\* a handler that lets the authorization error pass as any provider error
FatalErrorOnly == {"LSEGFatalError"}

\* except (LSEGFatalError, LSEGAuthorizationError): raise
PropagatedErrors == {"LSEGFatalError", "LSEGAuthorizationError"}

\* _is_data_valid
IsDataValid(data, expected_tickers) ==
    /\ data.kind = "DataFrame"
    /\ data.rics # {}
    /\ data.instrument
    /\ expected_tickers # <<>> => data.rics \cap Range(expected_tickers) # {}

\* what _fetch_bulk_data_with_retry hands to its caller: a frame (rics empty
\* for the empty frame) or an error, after so many requests, the last
\* classification among them
Fetched(kind, rics, error, attempts, class) ==
    [kind |-> kind, rics |-> rics, error |-> error, attempts |-> attempts,
     classified |-> class]

\* _fetch_bulk_data_with_retry from one attempt on; responses[attempt] is the
\* answer to the request of the attempt
RECURSIVE AttemptsFrom(_, _, _, _)
AttemptsFrom(tk, responses, attempt, last_lseg_error) ==
    IF attempt > MAX_FETCH_ATTEMPTS
    THEN IF last_lseg_error # "none"
         THEN Fetched("raise", {}, last_lseg_error, attempt - 1, last_lseg_error)
         ELSE Fetched("DataFrame", {}, "none", attempt - 1, "none")
    ELSE LET r == responses[attempt] IN
         CASE r.kind = "ValueError" ->
                Fetched("raise", {}, "ValueError", attempt, "none")
           [] r.kind = "RDError" ->
                LET class == ClassifyLsegError(r) IN
                IF ~Retryable(class)
                THEN Fetched("raise", {}, class, attempt, class)
                ELSE AttemptsFrom(tk, responses, attempt + 1, class)
           [] r.kind = "KeyError" ->
                AttemptsFrom(tk, responses, attempt + 1, last_lseg_error)
           [] OTHER ->
                IF IsDataValid(r, tk)
                THEN Fetched("DataFrame", r.rics, "none", attempt, "none")
                ELSE AttemptsFrom(tk, responses, attempt + 1, last_lseg_error)

FetchBulkDataWithRetry(tk, responses) == AttemptsFrom(tk, responses, 1, "none")

\* the answers to the attempts of one _fetch_bulk_data_with_retry
AttemptResponses(tk) == [1..MAX_FETCH_ATTEMPTS -> Responses(tk)]

\* _validate_response_completeness: sorted(requested_set - returned_rics)
ValidateResponseCompleteness(rics, requested_tickers) ==
    SelectSeq(AllTickers, LAMBDA t : t \in Range(requested_tickers) \ rics)

\* the tickers a call leaves without data
FailedOf(got, tk) ==
    IF got.kind = "DataFrame" /\ got.rics # {}
    THEN ValidateResponseCompleteness(got.rics, tk)
    ELSE tk

\* the error leaves the handlers of the caller
Propagates(got) ==
    /\ got.kind = "raise"
    /\ got.error \in PropagatedErrors \/ got.error \notin LSEGProviderErrors

\* what a _fetch_bulk_data_with_retry for tk can hand to its caller
FetchOutcomes(tk) ==
    {FetchBulkDataWithRetry(tk, responses) : responses \in AttemptResponses(tk)}

\* the tuples of up to n distinct tickers
TickerTuples(n) == {SubSeq(AllTickers, 1, m) : m \in 0..n}

FetchReturned(rics) == [kind |-> "returned", rics |-> rics, error |-> "none"]
FetchRaised(error) == [kind |-> "raised", rics |-> {}, error |-> error]

\* ---------------------------------------------------------------- the bulk fetch
\* min(batch_size or MINI_BULK_BATCH_SIZE, MINI_BULK_MAX_BATCH_SIZE)
EffectiveSize(batch_size) ==
    LET size == IF batch_size = NoBatchSize THEN MINI_BULK_BATCH_SIZE ELSE batch_size
    IN  IF size < MINI_BULK_MAX_BATCH_SIZE THEN size ELSE MINI_BULK_MAX_BATCH_SIZE

\* [tickers[i:i + effective_size] for i in range(0, len(tickers), effective_size)]
TickerBatches(tk, size) ==
    [b \in 1..((Len(tk) + size - 1) \div size) |->
        SubSeq(tk, (b - 1) * size + 1,
               IF b * size < Len(tk) THEN b * size ELSE Len(tk))]

\* a round that asks for every ticker again
EveryTicker(failed, all) == all

\* tickers=tuple(failed_rics)
PartitionTickers(failed, all) == failed

\* a provider that never leaves the fallback to the orchestrator
NeverSkipped(skip, failed) == FALSE

\* if skip_partition_fallback and failed_rics
PartitionSkipped(skip, failed) == skip /\ failed # <<>>

InitFetch ==
    /\ ToolkitIdle
    /\ BlockIdle
    /\ CacheIdle
    /\ MainIdle
    /\ tickers \in TickerTuples(MaxTickers) \ {<<>>}
    /\ skip_partition_fallback \in BOOLEAN
    /\ mini_bulk_batch_size \in {NoBatchSize, 1, 2}
    /\ all_results = {}
    /\ failed_rics = <<>>
    /\ step1_error = "none"
    /\ round_num = 0
    /\ round_tickers = <<>>
    /\ batch_idx = 0
    /\ still_failed = <<>>
    /\ round_data = {}
    /\ pending = <<>>
    /\ chunk_data = {}
    /\ chunk_failed = <<>>
    /\ requested = <<>>
    /\ requests = 0
    /\ classified = "none"
    /\ fetched = NotFetched
    /\ pc = "step1"

\* the partition round n starts with the tickers failed so far
StartRound(n, failed) ==
    /\ round_num' = n
    /\ round_tickers' = PartitionTickers(failed, tickers)
    /\ batch_idx' = 0
    /\ still_failed' = <<>>
    /\ round_data' = {}
    /\ pc' = "round"

\* Step 1: one request for all the tickers, then the decision on the fallback
Step1 ==
    /\ pc = "step1"
    /\ \E got \in FetchOutcomes(tickers) :
         LET failed == FailedOf(got, tickers)
             error == IF got.kind = "raise" THEN got.error ELSE "none"
         IN  /\ requested' = tickers
             /\ requests' = requests + got.attempts
             /\ classified' = got.classified
             /\ IF Propagates(got)
                THEN /\ fetched' = FetchRaised(got.error)
                     /\ pc' = "done"
                     /\ UNCHANGED <<all_results, failed_rics, step1_error, round_num,
                                    round_tickers, batch_idx, still_failed, round_data>>
                ELSE /\ all_results' = got.rics
                     /\ failed_rics' = failed
                     /\ step1_error' = error
                     /\ IF PartitionSkipped(skip_partition_fallback, failed)
                        THEN /\ fetched' = IF error # "none"
                                           THEN FetchRaised(error)
                                           ELSE FetchReturned(got.rics)
                             /\ pc' = "done"
                             /\ UNCHANGED <<round_num, round_tickers, batch_idx,
                                            still_failed, round_data>>
                        ELSE /\ fetched' = fetched
                             /\ IF failed # <<>>
                                THEN StartRound(1, failed)
                                ELSE /\ pc' = "combine"
                                     /\ UNCHANGED <<round_num, round_tickers, batch_idx,
                                                    still_failed, round_data>>
    /\ UNCHANGED <<toolkitVars, blockVars, cacheVars, mainVars, tickers,
                   skip_partition_fallback, mini_bulk_batch_size, pending,
                   chunk_data, chunk_failed>>

\* one batch of _fetch_in_mini_bulks in a partition round; after the last batch
\* the round ends and the next one starts while tickers are failed
FetchBatch ==
    /\ pc = "round"
    /\ LET batches == TickerBatches(round_tickers, EffectiveSize(mini_bulk_batch_size))
           batch == batches[batch_idx + 1]
       IN  \E got \in FetchOutcomes(batch) :
             LET failed == still_failed \o FailedOf(got, batch)
                 data == round_data \cup got.rics
             IN  /\ requested' = batch
                 /\ requests' = requests + got.attempts
                 /\ classified' = got.classified
                 /\ IF Propagates(got)
                    THEN /\ fetched' = FetchRaised(got.error)
                         /\ pc' = "done"
                         /\ UNCHANGED <<all_results, failed_rics, round_num, round_tickers,
                                        batch_idx, still_failed, round_data>>
                    ELSE /\ fetched' = fetched
                         /\ IF batch_idx + 1 < Len(batches)
                            THEN /\ batch_idx' = batch_idx + 1
                                 /\ still_failed' = failed
                                 /\ round_data' = data
                                 /\ pc' = pc
                                 /\ UNCHANGED <<all_results, failed_rics, round_num,
                                                round_tickers>>
                            ELSE /\ all_results' = all_results \cup data
                                 /\ failed_rics' = failed
                                 /\ IF round_num < MAX_PARTITION_ROUNDS /\ failed # <<>>
                                    THEN StartRound(round_num + 1, failed)
                                    ELSE /\ pc' = "combine"
                                         /\ batch_idx' = batch_idx + 1
                                         /\ still_failed' = failed
                                         /\ round_data' = data
                                         /\ UNCHANGED <<round_num, round_tickers>>
    /\ UNCHANGED <<toolkitVars, blockVars, cacheVars, mainVars, tickers,
                   skip_partition_fallback, mini_bulk_batch_size, step1_error,
                   pending, chunk_data, chunk_failed>>

\* the frames collected are concatenated and returned
Combine ==
    /\ pc = "combine"
    /\ fetched' = FetchReturned(all_results)
    /\ pc' = "done"
    /\ UNCHANGED <<toolkitVars, blockVars, cacheVars, mainVars, tickers,
                   skip_partition_fallback, mini_bulk_batch_size, all_results,
                   failed_rics, step1_error, round_num, round_tickers, batch_idx,
                   still_failed, round_data, pending, chunk_data, chunk_failed,
                   requested, requests, classified>>

NextFetch ==
    \/ Step1
    \/ FetchBatch
    \/ Combine

SpecFetch == InitFetch /\ [][NextFetch]_vars

\* ---------------------------------------------------- claims on the bulk fetch
\* the last request was classified as an error that is not to be survived
FatalClassified == classified \in {"LSEGFatalError", "LSEGAuthorizationError"}

\* C26: once a request of _fetch_bulk_data is classified as LSEGFatalError or
\* LSEGAuthorizationError, the error is raised to the caller and no further
\* request is issued: no retry attempt, no remaining batch, no partition round.
C26_FatalErrorsPropagate ==
    /\ [](FatalClassified => pc = "done" /\ fetched = FetchRaised(classified))
    /\ [][FatalClassified => requests' = requests]_vars

\* an authorization error in the second batch of a later partition round
C26_Witness ==
    /\ classified = "LSEGAuthorizationError"
    /\ round_num >= 2
    /\ batch_idx >= 1
    /\ fetched = FetchRaised("LSEGAuthorizationError")

\* C27: at most MAX_PARTITION_ROUNDS partition rounds run; a round requests
\* only the tickers that were still failed after the previous step, the set of
\* failed tickers never grows, and no round runs once no ticker is failed.
C27_PartitionRoundsBounded ==
    /\ [](round_num <= MAX_PARTITION_ROUNDS)
    /\ [](pc = "round" => failed_rics # <<>> /\ round_tickers = failed_rics)
    /\ [][(pc = "round" /\ requests' # requests)
             => Range(requested') \subseteq Range(failed_rics)]_vars
    /\ [][pc = "round" => Range(failed_rics') \subseteq Range(failed_rics)]_vars
    /\ [][(pc = "step1" /\ pc' = "round")
             => Range(failed_rics') \subseteq Range(tickers)]_vars
    /\ [][failed_rics' = <<>> => pc' # "round"]_vars

\* all the rounds ran, some tickers were recovered in them and some never
C27_Witness ==
    /\ pc = "combine"
    /\ round_num = MAX_PARTITION_ROUNDS
    /\ failed_rics # <<>>
    /\ Len(failed_rics) < Len(tickers)
    /\ all_results # {}
    /\ step1_error # "none"

\* Step 1 is over and has left a requested ticker without data
Step1LeftFailed == pc # "step1" /\ failed_rics # <<>>

\* C28 as stated: with skip_partition_fallback=True, whenever Step 1 leaves a
\* requested ticker without data no partition round is performed and the
\* Step 1 error is raised to the caller.
C28_SkipRaisesStep1Error ==
    (skip_partition_fallback /\ Step1LeftFailed)
        => /\ round_num = 0
           /\ fetched.kind = "raised"

\* C28: with skip_partition_fallback=True, whenever Step 1 leaves a requested
\* ticker without data no partition round is performed; the Step 1 error is
\* raised when Step 1 ended with a provider error, and otherwise the frame of
\* Step 1, without the missing tickers, is returned.
C28_SkipLeavesFallbackToCaller ==
    (skip_partition_fallback /\ Step1LeftFailed)
        => /\ round_num = 0
           /\ requested = tickers
           /\ pc = "done"
           /\ fetched = IF step1_error # "none"
                        THEN FetchRaised(step1_error)
                        ELSE FetchReturned(all_results)

\* the gateway timeout of Step 1 handed to the orchestrator
C28_Witness ==
    /\ skip_partition_fallback
    /\ Step1LeftFailed
    /\ Len(tickers) = MaxTickers
    /\ step1_error = "LSEGGatewayTimeoutError"
    /\ fetched = FetchRaised("LSEGGatewayTimeoutError")

\* --------------------------------------------------------- adaptive chunking
\* a grid cell about to be fetched, or _fetch_with_adaptive_chunking called
\* directly; pending is the stack of the calls of the recursion, the first
\* call on top
InitChunking ==
    /\ ToolkitIdle
    /\ BlockIdle
    /\ CacheIdle
    /\ MainIdle
    /\ tickers \in TickerTuples(MaxTickers)
    /\ skip_partition_fallback = FALSE
    /\ mini_bulk_batch_size = NoBatchSize
    /\ all_results = {}
    /\ failed_rics = <<>>
    /\ step1_error = "none"
    /\ round_num = 0
    /\ round_tickers = <<>>
    /\ batch_idx = 0
    /\ still_failed = <<>>
    /\ round_data = {}
    /\ pending = <<tickers>>
    /\ chunk_data = {}
    /\ chunk_failed = <<>>
    /\ requested = <<>>
    /\ requests = 0
    /\ classified = "none"
    /\ fetched = NotFetched
    /\ pc \in {"cell", "chunking"}

\* _fetch_fundamental_grid_cell: one request for the cell, and the chunking
\* when it fails or returns the empty frame
FetchGridCell ==
    /\ pc = "cell"
    /\ \E got \in FetchOutcomes(tickers) :
         /\ requested' = tickers
         /\ requests' = requests + got.attempts
         /\ classified' = got.classified
         /\ IF Propagates(got)
            THEN /\ fetched' = FetchRaised(got.error)
                 /\ pc' = "done"
            ELSE IF got.rics # {}
            THEN /\ fetched' = FetchReturned(got.rics)
                 /\ pc' = "done"
            ELSE /\ fetched' = fetched
                 /\ pc' = "chunking"
    /\ UNCHANGED <<toolkitVars, blockVars, cacheVars, mainVars, tickers,
                   skip_partition_fallback, mini_bulk_batch_size, all_results,
                   failed_rics, step1_error, round_num, round_tickers, batch_idx,
                   still_failed, round_data, pending, chunk_data, chunk_failed>>

\* tickers[:mid], tickers[mid:]
SplitInHalf(tk) ==
    LET mid == Len(tk) \div 2
    IN  <<SubSeq(tk, 1, mid), SubSeq(tk, mid + 1, Len(tk))>>

\* the calls a failed chunk leaves to run: none for a single ticker, the two
\* halves otherwise
CallsAfterFailure(tk) == IF Len(tk) = 1 THEN <<>> ELSE SplitInHalf(tk)

\* one call of _fetch_with_adaptive_chunking up to its recursive calls
FetchChunk ==
    /\ pc = "chunking"
    /\ pending # <<>>
    /\ LET tk == Head(pending) IN
       IF tk = <<>>
       THEN /\ pending' = Tail(pending)
            /\ UNCHANGED <<chunk_data, chunk_failed, requested, requests, classified,
                           fetched, pc>>
       ELSE \E got \in FetchOutcomes(tk) :
              /\ requested' = tk
              /\ requests' = requests + got.attempts
              /\ classified' = got.classified
              /\ IF Propagates(got)
                 THEN /\ fetched' = FetchRaised(got.error)
                      /\ pc' = "done"
                      /\ UNCHANGED <<pending, chunk_data, chunk_failed>>
                 ELSE /\ UNCHANGED <<fetched, pc>>
                      /\ IF got.rics # {}
                         THEN /\ chunk_data' = chunk_data \cup got.rics
                              /\ pending' = Tail(pending)
                              /\ chunk_failed' = chunk_failed
                         ELSE /\ chunk_data' = chunk_data
                              /\ chunk_failed' = IF Len(tk) = 1
                                                 THEN Append(chunk_failed, tk[1])
                                                 ELSE chunk_failed
                              /\ pending' = CallsAfterFailure(tk) \o Tail(pending)
    /\ UNCHANGED <<toolkitVars, blockVars, cacheVars, mainVars, tickers,
                   skip_partition_fallback, mini_bulk_batch_size, all_results,
                   failed_rics, step1_error, round_num, round_tickers, batch_idx,
                   still_failed, round_data>>

\* the outermost call returns the concatenation of the frames of its chunks
ReturnChunks ==
    /\ pc = "chunking"
    /\ pending = <<>>
    /\ fetched' = FetchReturned(chunk_data)
    /\ pc' = "done"
    /\ UNCHANGED <<toolkitVars, blockVars, cacheVars, mainVars, tickers,
                   skip_partition_fallback, mini_bulk_batch_size, all_results,
                   failed_rics, step1_error, round_num, round_tickers, batch_idx,
                   still_failed, round_data, pending, chunk_data, chunk_failed,
                   requested, requests, classified>>

NextChunking ==
    \/ FetchGridCell
    \/ FetchChunk
    \/ ReturnChunks

SpecChunking == InitChunking /\ [][NextChunking]_vars

\* the requests are answered and the calls return
SpecChunkingFair == SpecChunking /\ WF_vars(NextChunking)

\* ------------------------------------------- claims on the adaptive chunking
\* _fetch_with_adaptive_chunking has returned to its caller
ChunkingReturned == pc = "done" /\ fetched.kind = "returned" /\ pending = <<>>

\* how often a ticker is in failed_tickers
TimesFailed(t) == Cardinality({i \in DOMAIN chunk_failed : chunk_failed[i] = t})

\* C29: when _fetch_with_adaptive_chunking returns, every requested ticker
\* has rows in the returned data or is exactly once in failed_tickers.
C29_EveryTickerAccounted ==
    ChunkingReturned
        => \A t \in Range(tickers) : t \in fetched.rics \/ TimesFailed(t) = 1

\* C29, termination: every call of the chunking returns or raises.
C29_ChunkingTerminates == <>(pc = "done")

\* what the chunking does keep: a ticker of failed_tickers is there once, has
\* no rows in the returned data and was requested
C29_FailedOnceWithoutRows ==
    ChunkingReturned
        => \A t \in Range(chunk_failed) :
             /\ TimesFailed(t) = 1
             /\ t \notin fetched.rics
             /\ t \in Range(tickers)

\* ------------------------------------ claims on the endpoint iteration order
\* the endpoint tables in another iteration order
Reordered(p) == [i \in DOMAIN tables |-> tables[p[i]]]

\* the first consolidation, of two or more tables, has returned a table
ConsolidatedSeveral == pc = "consolidated" /\ Len(tables) >= 2 /\ result.kind = "table"

\* C30: the table a successful consolidation of two or more endpoint tables
\* returns (rows, row order, columns, values) is the table the consolidation
\* returns for every other iteration order of the endpoint tables.
C30_IterationOrderIrrelevant ==
    ConsolidatedSeveral
        => \A p \in Permutations(DOMAIN tables) :
             Consolidate(Reordered(p), keyCols, descending) = result

\* two tables with rows, the first row of the result being the first row of
\* the second table and not of the first
C30_Witness ==
    /\ ConsolidatedSeveral
    /\ tables[1].rows # <<>>
    /\ tables[2].rows # <<>>
    /\ Len(result.table.rows) = 2
    /\ result.table.rows[1][K1] = tables[2].rows[1][K1]
    /\ result.table.rows[1][K1] # tables[1].rows[1][K1]

====
